---- MODULE Spec2Model ----
(***************************************************************************)
(* Model of the Alarms page of the alert-manager dashboard: the client-    *)
(* side filter / facet / group engine of the two AlarmsPage components.    *)
(*                                                                         *)
(*   standalone  src/standalone/components/alarms_page.tsx, with the       *)
(*               AlertsFiltersPanel (src/unnamed/part_000)                 *)
(*   plugin      src/unnamed/part_001 (rules search, popover filters,      *)
(*               "By rule groups" view)                                    *)
(*                                                                         *)
(* A JavaScript string is a sequence of one-character strings, so that     *)
(* toLowerCase, includes, sort and localeCompare are computed rather than  *)
(* assumed.  A JavaScript array is a sequence.  An object used as a map    *)
(* (a filter state's labels, a breakdown) is the sequence of its entries   *)
(* in insertion order, which is the order Object.entries yields them in.   *)
(***************************************************************************)
EXTENDS Integers, Sequences, FiniteSets, TLC

VARIABLES
    page,               \* which AlarmsPage component is mounted
    alerts,             \* standalone: useState<UnifiedAlert[]>
    alertFilters,       \* standalone: useState<AlertFilterState>
    alertSearchQuery,   \* standalone: useState('')
    rules,              \* plugin: useState<UnifiedRule[]>
    searchQuery,        \* plugin: useState('')
    statusFilter,       \* plugin: useState<string[]>
    severityFilter,     \* plugin: useState<string[]>
    backendFilter,      \* plugin: useState<string[]>
    viewMode,           \* plugin: useState<'list' | 'grouped'>
    filters,            \* standalone: useState<FilterState>(emptyFilters())
    savedSearches,      \* standalone: useState<SavedSearch[]>([])
    deletedRuleIds,     \* standalone: useState<Set<string>>(new Set())
    datasources,        \* useState<Datasource[]>([])
    loading,            \* useState(true)
    fetch,              \* fetchData: its position and its three list requests
    showCreateMonitor,  \* standalone: useState(false)
    showAiWizard,       \* standalone: useState(false)
    now,                \* the clock Date.now() and new Date() read
    lastOp              \* the handler that ran last, with its arguments

\* the state of the standalone page's rules tab and of the fetch
sessionVars == <<filters, savedSearches, deletedRuleIds, datasources, loading,
                 fetch, showCreateMonitor, showAiWizard, now, lastOp>>

vars == <<page, alerts, alertFilters, alertSearchQuery, rules, searchQuery,
          statusFilter, severityFilter, backendFilter, viewMode, filters,
          savedSearches, deletedRuleIds, datasources, loading, fetch,
          showCreateMonitor, showAiWizard, now, lastOp>>

-----------------------------------------------------------------------------
(* Bounds of the model.                                                    *)

\* longest alert collection a fetch returns
MaxAlerts == 3
\* longest rule collection a fetch returns
MaxRules == 3
\* most constraints in force at once: the selected values and label entries
\* of a filter state, plus one for a non-empty free-text query
MaxActive == 2

-----------------------------------------------------------------------------
(* JavaScript strings.                                                     *)

\* The characters of the model in UTF-16 code unit order.
CodeUnits ==
    <<"-", "1", "2",
      "A", "B", "C", "D", "E", "F", "G", "H", "I", "J", "K", "L", "M",
      "N", "O", "P", "Q", "R", "S", "T", "U", "V", "W", "X", "Y", "Z",
      "a", "b", "c", "d", "e", "f", "g", "h", "i", "j", "k", "l", "m",
      "n", "o", "p", "q", "r", "s", "t", "u", "v", "w", "x", "y", "z">>

CharSet == {CodeUnits[i] : i \in 1..Len(CodeUnits)}

\* position of a character in code unit order
Code == [c \in CharSet |-> CHOOSE i \in 1..Len(CodeUnits) : CodeUnits[i] = c]

IsUpper(c) == Code[c] >= Code["A"] /\ Code[c] <= Code["Z"]
IsLower(c) == Code[c] >= Code["a"] /\ Code[c] <= Code["z"]

LowerChar(c) == IF IsUpper(c) THEN CodeUnits[Code[c] - Code["A"] + Code["a"]] ELSE c
UpperChar(c) == IF IsLower(c) THEN CodeUnits[Code[c] - Code["a"] + Code["A"]] ELSE c

\* String.prototype.toLowerCase / toUpperCase
toLowerCase(s) == [i \in 1..Len(s) |-> LowerChar(s[i])]
toUpperCase(s) == [i \in 1..Len(s) |-> UpperChar(s[i])]

\* String.prototype.includes: needle occurs in hay as a contiguous run
includes(hay, needle) ==
    \E i \in 0..(Len(hay) - Len(needle)) :
        \A j \in 1..Len(needle) : hay[i + j] = needle[j]

Min(S) == CHOOSE x \in S : \A y \in S : x <= y

\* a < b in the order Array.prototype.sort() uses without a comparator:
\* lexicographic by UTF-16 code unit
StrLess(a, b) ==
    LET n == IF Len(a) < Len(b) THEN Len(a) ELSE Len(b)
        d == {i \in 1..n : a[i] # b[i]}
    IN  IF d = {} THEN Len(a) < Len(b)
        ELSE Code[a[Min(d)]] < Code[b[Min(d)]]

\* collation rank of a character for localeCompare: punctuation, digits,
\* then letters, a letter's case being ignored at this level
Primary(c) == Code[LowerChar(c)]

\* a.localeCompare(b) < 0: compare ignoring case; equal so far, the shorter
\* string first; the same letters, lower case before upper case at the first
\* position where the case differs
LocaleLess(a, b) ==
    LET n == IF Len(a) < Len(b) THEN Len(a) ELSE Len(b)
        d == {i \in 1..n : Primary(a[i]) # Primary(b[i])}
        t == {i \in 1..n : a[i] # b[i]}
    IN  IF d # {} THEN Primary(a[Min(d)]) < Primary(b[Min(d)])
        ELSE IF Len(a) # Len(b) THEN Len(a) < Len(b)
        ELSE t # {} /\ IsLower(a[Min(t)])

\* the value of an optional field that is not set
undefined == <<"undefined">>

\* JavaScript truthiness of a string-or-undefined value
Truthy(v) == v # undefined /\ v # <<>>

-----------------------------------------------------------------------------
(* JavaScript arrays, Set and Map.                                         *)

\* Array.prototype.includes
Has(arr, v) == \E i \in 1..Len(arr) : arr[i] = v

\* Array.from(new Set(arr)): the distinct elements in first-insertion order
RECURSIVE SetOrder(_)
SetOrder(arr) ==
    IF arr = <<>> THEN <<>>
    ELSE LET init == SetOrder(SubSeq(arr, 1, Len(arr) - 1))
             last == arr[Len(arr)]
         IN  IF Has(init, last) THEN init ELSE Append(init, last)

\* Array.prototype.sort() of strings, no comparator
sort(arr) == SortSeq(arr, StrLess)

-----------------------------------------------------------------------------
(* Record data: the values the fetched records are built from.             *)

active     == <<"a","c","t","i","v","e">>
resolved   == <<"r","e","s","o","l","v","e","d">>
pending    == <<"p","e","n","d","i","n","g">>
critical   == <<"c","r","i","t","i","c","a","l">>
high       == <<"h","i","g","h">>
opensearch == <<"o","p","e","n","s","e","a","r","c","h">>
prometheus == <<"p","r","o","m","e","t","h","e","u","s">>
ds1        == <<"d","s","-","1">>
ds2        == <<"d","s","-","2">>
service    == <<"s","e","r","v","i","c","e">>
env        == <<"e","n","v">>

\* Record<string, string> of a record's labels: a function from key to value
NoLabels == [k \in {} |-> <<>>]
Labels1(k, v) == [x \in {k} |-> v]
Labels2(k1, v1, k2, v2) == [x \in {k1, k2} |-> IF x = k1 THEN v1 ELSE v2]

\* UnifiedAlert, the fields the page reads
Alert(id, name, message, state, severity, dsType, dsId, labels) ==
    [id |-> id, name |-> name, message |-> message, state |-> state,
     severity |-> severity, datasourceType |-> dsType, datasourceId |-> dsId,
     labels |-> labels]

\* The alerts a backend may return: names in mixed case, a missing and an
\* empty message, labels present, absent and empty.
AlertPool ==
    { Alert("a1", <<"A","b">>, <<"c","p","u">>, active, high, opensearch, ds2,
            Labels1(service, <<"b">>)),
      Alert("a2", <<"b">>, undefined, resolved, critical, prometheus, ds1,
            Labels1(service, <<"a">>)),
      Alert("a3", <<"c","B">>, <<"a","B">>, active, critical, prometheus, ds2,
            NoLabels),
      Alert("a4", <<"c">>, <<>>, resolved, high, opensearch, ds1,
            Labels2(service, <<>>, env, <<"p">>)) }

\* sequences without repetition over S, of length at most n
RECURSIVE InjSeqs(_, _)
InjSeqs(S, n) ==
    IF n = 0 THEN {<<>>}
    ELSE LET shorter == InjSeqs(S, n - 1)
         IN  shorter \cup {Append(q, x) : <<q, x>> \in
                 {y \in shorter \X S : ~Has(y[1], y[2])}}

\* the collections GET /api/alerts may return (ids unique)
AlertCollections == InjSeqs(AlertPool, MaxAlerts)

\* the free-text queries typed into a search box
Queries == {<<>>, <<"a">>, <<"A","B">>}

-----------------------------------------------------------------------------
(* standalone page: the alert filter evaluator.                            *)

\* alert.labels[key] (and rule.labels[key]): undefined when the key is absent
LabelOf(rec, key) ==
    IF key \in DOMAIN rec.labels THEN rec.labels[key] ELSE undefined

\* mutant of MatchesAlertQuery: the fields are not lower-cased before the
\* comparison
MatchesAlertQuery_CaseSensitive(alert, query) ==
    \/ includes(alert.name, query)
    \/ (alert.message # undefined /\ includes(alert.message, query))
    \/ includes(alert.state, query)
    \/ includes(alert.severity, query)

\* the free-text predicate; query is already lower-cased
MatchesAlertQuery(alert, query) ==
    \/ includes(toLowerCase(alert.name), query)
    \/ (alert.message # undefined /\ includes(toLowerCase(alert.message), query))
    \/ includes(toLowerCase(alert.state), query)
    \/ includes(toLowerCase(alert.severity), query)

\* mutant of PassesLabel: an alert without the label is let through
PassesLabel_AbsentPasses(alert, key, values) ==
    LET labelVal == LabelOf(alert, key)
    IN  ~Truthy(labelVal) \/ Has(values, labelVal)

\* one pass of the label loop: labelVal && values.includes(labelVal)
PassesLabel(alert, key, values) ==
    LET labelVal == LabelOf(alert, key)
    IN  Truthy(labelVal) /\ Has(values, labelVal)

\* for (const [key, values] of Object.entries(alertFilters.labels))
RECURSIVE FilterByLabels(_, _)
FilterByLabels(result, entries) ==
    IF entries = <<>> THEN result
    ELSE LET e == Head(entries)
             next == IF Len(e.values) > 0
                     THEN SelectSeq(result, LAMBDA a : PassesLabel(a, e.key, e.values))
                     ELSE result
         IN  FilterByLabels(next, Tail(entries))

\* mutant of FilterByState: the length guard is lost, so an empty selection
\* keeps nothing
FilterByState_Unguarded(result, selected) ==
    SelectSeq(result, LAMBDA a : Has(selected, a.state))

\* mutant of FilterByState: rejected alerts are spliced out of the array while
\* it is being walked, so the alert after a rejected one is never examined
RECURSIVE FilterByState_Splicing(_, _)
FilterByState_Splicing(result, selected) ==
    IF Len(selected) = 0 \/ result = <<>> THEN result
    ELSE IF Has(selected, Head(result).state)
         THEN <<Head(result)>> \o FilterByState_Splicing(Tail(result), selected)
         ELSE IF Len(result) = 1 THEN <<>>
              ELSE <<result[2]>> \o FilterByState_Splicing(Tail(Tail(result)), selected)

\* mutant of FilterByDatasourceId: the datasource selection is compared with
\* the alert's datasourceType
FilterByDatasourceId_WrongField(result, selected) ==
    IF Len(selected) > 0 THEN SelectSeq(result, LAMBDA a : Has(selected, a.datasourceType))
    ELSE result

\* if (selected.length > 0) result = result.filter(a => selected.includes(a.<field>))
FilterByState(result, selected) ==
    IF Len(selected) > 0 THEN SelectSeq(result, LAMBDA a : Has(selected, a.state))
    ELSE result
FilterBySeverity(result, selected) ==
    IF Len(selected) > 0 THEN SelectSeq(result, LAMBDA a : Has(selected, a.severity))
    ELSE result
FilterByDatasourceType(result, selected) ==
    IF Len(selected) > 0 THEN SelectSeq(result, LAMBDA a : Has(selected, a.datasourceType))
    ELSE result
FilterByDatasourceId(result, selected) ==
    IF Len(selected) > 0 THEN SelectSeq(result, LAMBDA a : Has(selected, a.datasourceId))
    ELSE result

\* mutant of FilterByAlertQuery: the matches are collected newest first
FilterByAlertQuery_Reversed(result, q) ==
    IF q # <<>>
    THEN LET query == toLowerCase(q)
             kept == SelectSeq(result, LAMBDA a : MatchesAlertQuery(a, query))
         IN  [i \in 1..Len(kept) |-> kept[Len(kept) + 1 - i]]
    ELSE result

\* if (alertSearchQuery) result = result.filter(...)
FilterByAlertQuery(result, q) ==
    IF q # <<>>
    THEN LET query == toLowerCase(q)
         IN  SelectSeq(result, LAMBDA a : MatchesAlertQuery(a, query))
    ELSE result

\* the filteredAlerts memo, as a function of what it depends on
filteredAlerts(as, q, f) ==
    LET r1 == FilterByAlertQuery(as, q)
        r2 == FilterByState(r1, f.state)
        r3 == FilterBySeverity(r2, f.severity)
        r4 == FilterByDatasourceType(r3, f.datasourceType)
        r5 == FilterByDatasourceId(r4, f.datasourceId)
    IN  FilterByLabels(r5, f.labels)

-----------------------------------------------------------------------------
(* standalone page: grouping of the filtered alerts.                       *)

null == <<"null">>

\* position of the entry with this key in a Map's entries, 0 when absent
IndexOfKey(entries, key) ==
    IF \E i \in 1..Len(entries) : entries[i].key = key
    THEN CHOOSE i \in 1..Len(entries) : entries[i].key = key
    ELSE 0

\* mutant of MapPush: the group's array is replaced instead of appended to
MapPush_Overwrite(groups, groupKey, member) ==
    LET i == IndexOfKey(groups, groupKey)
    IN  IF i = 0 THEN Append(groups, [key |-> groupKey, members |-> <<member>>])
        ELSE [groups EXCEPT ![i].members = <<member>>]

\* mutant of MapPush: a new group is put in front of the groups found so far
MapPush_NewestFirst(groups, groupKey, member) ==
    LET i == IndexOfKey(groups, groupKey)
    IN  IF i = 0 THEN <<[key |-> groupKey, members |-> <<member>>]>> \o groups
        ELSE [groups EXCEPT ![i].members = Append(@, member)]

\* if (!groups.has(groupKey)) groups.set(groupKey, []);
\* groups.get(groupKey)!.push(member)
MapPush(groups, groupKey, member) ==
    LET i == IndexOfKey(groups, groupKey)
    IN  IF i = 0 THEN Append(groups, [key |-> groupKey, members |-> <<member>>])
        ELSE [groups EXCEPT ![i].members = Append(@, member)]

\* the key an alert is grouped under
AlertGroupKey(alert, groupBy) ==
    IF groupBy = "datasource" THEN alert.datasourceId
    ELSE IF groupBy = "state" THEN alert.state
    ELSE <<"u","n","g","r","o","u","p","e","d">>

RECURSIVE GroupAlertsInto(_, _, _)
GroupAlertsInto(groups, filtered, groupBy) ==
    IF filtered = <<>> THEN groups
    ELSE GroupAlertsInto(
             MapPush(groups, AlertGroupKey(Head(filtered), groupBy), Head(filtered)),
             Tail(filtered), groupBy)

\* the groupedAlerts memo: null, or the Map's entries in insertion order
groupedAlerts(filtered, groupBy) ==
    IF groupBy = "none" THEN null
    ELSE GroupAlertsInto(<<>>, filtered, groupBy)

\* mutant of CountInto: a key already present is not counted again
CountInto_Stuck(acc, k) ==
    LET i == IndexOfKey(acc, k)
    IN  IF i = 0 THEN Append(acc, [key |-> k, count |-> 1])
        ELSE acc

\* acc[k] = (acc[k] || 0) + 1 on a plain object: its entries in insertion order
CountInto(acc, k) ==
    LET i == IndexOfKey(acc, k)
    IN  IF i = 0 THEN Append(acc, [key |-> k, count |-> 1])
        ELSE [acc EXCEPT ![i].count = @ + 1]

RECURSIVE stateBreakdown(_)
stateBreakdown(groupAlerts) ==
    IF groupAlerts = <<>> THEN <<>>
    ELSE CountInto(stateBreakdown(SubSeq(groupAlerts, 1, Len(groupAlerts) - 1)),
                   groupAlerts[Len(groupAlerts)].state)

RECURSIVE severityBreakdown(_)
severityBreakdown(groupAlerts) ==
    IF groupAlerts = <<>> THEN <<>>
    ELSE CountInto(severityBreakdown(SubSeq(groupAlerts, 1, Len(groupAlerts) - 1)),
                   groupAlerts[Len(groupAlerts)].severity)

\* the items of the grouped table
AlertGroupItem(entry) ==
    [id |-> entry.key, groupKey |-> entry.key, count |-> Len(entry.members),
     alerts |-> entry.members,
     stateBreakdown |-> stateBreakdown(entry.members),
     severityBreakdown |-> severityBreakdown(entry.members)]

AlertGroupItems(grouped) == [i \in 1..Len(grouped) |-> AlertGroupItem(grouped[i])]

\* Object.entries(breakdown).sort(([a], [b]) => a.localeCompare(b)): the
\* badges of a breakdown column in display order
BreakdownBadges(breakdown) ==
    SortSeq(breakdown, LAMBDA x, y : LocaleLess(x.key, y.key))

-----------------------------------------------------------------------------
(* AlertsFiltersPanel: the facets it offers and the edits it relays.       *)

\* AlertFilterState returned by emptyAlertFilters()
emptyAlertFilters ==
    [state |-> <<>>, severity |-> <<>>, datasourceType |-> <<>>,
     datasourceId |-> <<>>, labels |-> <<>>, groupBy |-> "none"]

\* the values a Set holds after adding every truthy element of vals in order
TruthyOnly(vals) == SelectSeq(vals, LAMBDA v : Truthy(v))

\* collectUniqueValues(alerts, field), given the field of each alert in order
collectUniqueValues(fieldValues) == sort(SetOrder(TruthyOnly(fieldValues)))

uniqueStates(as)      == collectUniqueValues([i \in 1..Len(as) |-> as[i].state])
uniqueSeverities(as)  == collectUniqueValues([i \in 1..Len(as) |-> as[i].severity])
uniqueBackends(as)    == collectUniqueValues([i \in 1..Len(as) |-> as[i].datasourceType])
uniqueDatasources(as) == collectUniqueValues([i \in 1..Len(as) |-> as[i].datasourceId])

\* Object.keys(obj): the keys of one object, in some insertion order
RECURSIVE ObjectKeys(_)
ObjectKeys(ks) ==
    IF ks = {} THEN <<>>
    ELSE LET k == CHOOSE x \in ks : TRUE
         IN  <<k>> \o ObjectKeys(ks \ {k})

\* Object.keys(rec.labels) of every record, concatenated in record order
RECURSIVE AllLabelKeys(_)
AllLabelKeys(recs) ==
    IF recs = <<>> THEN <<>>
    ELSE ObjectKeys(DOMAIN Head(recs).labels) \o AllLabelKeys(Tail(recs))

\* collectLabelKeys(alerts)
collectLabelKeys(recs) == sort(SetOrder(AllLabelKeys(recs)))

\* collectLabelValues(alerts, key)
collectLabelValues(recs, key) ==
    sort(SetOrder(TruthyOnly([i \in 1..Len(recs) |-> LabelOf(recs[i], key)])))

\* filters.labels[key] || []
SelectedLabelValues(f, key) ==
    LET i == IndexOfKey(f.labels, key)
    IN  IF i = 0 THEN <<>> ELSE f.labels[i].values

ToggleOption_Appending(selected, opt) == Append(selected, opt)

\* the checkbox onChange of a facet option
ToggleOption(selected, opt) ==
    IF Has(selected, opt) THEN SelectSeq(selected, LAMBDA v : v # opt)
    ELSE Append(selected, opt)

\* updateLabelFilter: { ...filters, labels: { ...filters.labels, [key]: values } }
updateLabelFilter(f, key, values) ==
    LET i == IndexOfKey(f.labels, key)
    IN  [f EXCEPT !.labels =
            IF i = 0 THEN Append(@, [key |-> key, values |-> values])
            ELSE [@ EXCEPT ![i].values = values]]

\* activeFilterCount of the alerts panel
RECURSIVE SumLabelValues(_)
SumLabelValues(entries) ==
    IF entries = <<>> THEN 0
    ELSE Len(Head(entries).values) + SumLabelValues(Tail(entries))

alertActiveFilterCount(f) ==
    Len(f.state) + Len(f.severity) + Len(f.datasourceType) + Len(f.datasourceId)
        + SumLabelValues(f.labels)

groupByOptions_WithState == <<"none", "datasource", "state">>

\* the ids of groupByOptions
groupByOptions == <<"none", "datasource">>

-----------------------------------------------------------------------------
(* Rules (monitors).                                                       *)

muted        == <<"m","u","t","e","d">>
disabledTxt  == <<"d","i","s","a","b","l","e","d">>
enabledTxt   == <<"e","n","a","b","l","e","d">>
Ungrouped    == <<"U","n","g","r","o","u","p","e","d">>
metric       == <<"m","e","t","r","i","c">>
log          == <<"l","o","g">>
healthy      == <<"h","e","a","l","t","h","y">>
failing      == <<"f","a","i","l","i","n","g">>
admin        == <<"a","d","m","i","n">>
on           == <<"o","n">>

\* UnifiedRule, the fields the pages and the monitors panel read
Rule(id, name, query, group, isEnabled, severity, dsType, status, mType, health, labels) ==
    [id |-> id, name |-> name, query |-> query, group |-> group,
     enabled |-> isEnabled, severity |-> severity, datasourceType |-> dsType,
     status |-> status, monitorType |-> mType,
     healthStatus |-> health, createdBy |-> admin, labels |-> labels]

\* The rules a backend may return: a missing and an empty query and group,
\* two rules of one group, severities first met in descending order.
RulePool ==
    { Rule("r1", <<"A","b">>, <<"u","p">>, <<"g">>, TRUE, high, prometheus,
           active, metric, failing, Labels1(service, <<"b">>)),
      Rule("r2", <<"b">>, undefined, undefined, FALSE, critical, opensearch,
           disabledTxt, log, healthy, NoLabels),
      Rule("r3", <<"c">>, <<"B","a">>, <<>>, TRUE, critical, prometheus,
           muted, metric, healthy, Labels2(service, <<"a">>, env, <<>>)),
      Rule("r4", <<"g">>, <<>>, <<"g">>, FALSE, high, opensearch,
           disabledTxt, log, failing, Labels1(env, <<"p">>)) }

\* the collections GET /api/rules may return (ids unique)
RuleCollections == InjSeqs(RulePool, MaxRules)

-----------------------------------------------------------------------------
(* MonitorsFiltersPanel: the facets it offers.                             *)

\* collectUniqueValues(rules, field) of the monitors panel, given the field
\* of each rule in order; every accessor the panel passes yields a string
collectUniqueRuleValues(fieldValues) == sort(SetOrder(TruthyOnly(fieldValues)))

uniqueStatuses(rs)       == collectUniqueRuleValues([i \in 1..Len(rs) |-> rs[i].status])
uniqueRuleSeverities(rs) == collectUniqueRuleValues([i \in 1..Len(rs) |-> rs[i].severity])
uniqueTypes(rs)          == collectUniqueRuleValues([i \in 1..Len(rs) |-> rs[i].monitorType])
uniqueHealth(rs)         == collectUniqueRuleValues([i \in 1..Len(rs) |-> rs[i].healthStatus])
uniqueCreators(rs)       == collectUniqueRuleValues([i \in 1..Len(rs) |-> rs[i].createdBy])
uniqueRuleBackends(rs)   == collectUniqueRuleValues([i \in 1..Len(rs) |-> rs[i].datasourceType])

\* collectLabelKeys(rules) and collectLabelValues(rules, key)
collectRuleLabelKeys(rs) == sort(SetOrder(AllLabelKeys(rs)))
collectRuleLabelValues(rs, key) ==
    sort(SetOrder(TruthyOnly([i \in 1..Len(rs) |-> LabelOf(rs[i], key)])))

-----------------------------------------------------------------------------
(* plugin page: the rule filter evaluator, its popover options, grouping.  *)

\* matchesSearch; query is already lower-cased
MatchesRuleQuery(rule, query) ==
    \/ includes(toLowerCase(rule.name), query)
    \/ (rule.query # undefined /\ includes(toLowerCase(rule.query), query))
    \/ (rule.group # undefined /\ includes(toLowerCase(rule.group), query))

\* the callback of rules.filter(...)
RulePasses(rule, q, statusF, severityF, backendF) ==
    /\ q # <<>> => MatchesRuleQuery(rule, toLowerCase(q))
    /\ Len(statusF) > 0 =>
           Has(statusF, IF rule.enabled THEN enabledTxt ELSE disabledTxt)
    /\ Len(severityF) > 0 => Has(severityF, rule.severity)
    /\ Len(backendF) > 0 => Has(backendF, rule.datasourceType)

\* the filteredRules memo, as a function of what it depends on
filteredRules(rs, q, statusF, severityF, backendF) ==
    SelectSeq(rs, LAMBDA r : RulePasses(r, q, statusF, severityF, backendF))

\* s.charAt(0).toUpperCase() + s.slice(1)
Capitalize(s) == IF s = <<>> THEN <<>> ELSE <<UpperChar(s[1])>> \o Tail(s)

\* an option of an EuiSelectable
Option(label, selected, value) ==
    [label |-> label, checked |-> IF Has(selected, value) THEN on ELSE undefined]

statusOptions(statusF) ==
    << Option(Capitalize(enabledTxt), statusF, enabledTxt),
       Option(Capitalize(disabledTxt), statusF, disabledTxt) >>

\* Array.from(new Set(rules.map(r => r.severity))).map(s => ({label, checked}))
severityOptions(rs, severityF) ==
    LET severities == SetOrder([i \in 1..Len(rs) |-> rs[i].severity])
    IN  [i \in 1..Len(severities) |->
            Option(Capitalize(severities[i]), severityF, severities[i])]

backendOptions(rs, backendF) ==
    LET backends == SetOrder([i \in 1..Len(rs) |-> rs[i].datasourceType])
    IN  [i \in 1..Len(backends) |->
            Option(Capitalize(backends[i]), backendF, backends[i])]

\* what EuiSelectable hands to onChange when option i is clicked
ClickOption(options, i) ==
    [options EXCEPT ![i].checked = IF @ = on THEN undefined ELSE on]

\* options.filter(o => o.checked === 'on').map(o => o.label.toLowerCase())
SelectedOf(options) ==
    LET checked == SelectSeq(options, LAMBDA o : o.checked = on)
    IN  [i \in 1..Len(checked) |-> toLowerCase(checked[i].label)]

ruleActiveFilterCount(statusF, severityF, backendF) ==
    Len(statusF) + Len(severityF) + Len(backendF)

\* rule.group || 'Ungrouped'
RuleGroupName(rule) == IF Truthy(rule.group) THEN rule.group ELSE Ungrouped

RECURSIVE GroupRulesInto(_, _)
GroupRulesInto(groups, filtered) ==
    IF filtered = <<>> THEN groups
    ELSE GroupRulesInto(MapPush(groups, RuleGroupName(Head(filtered)), Head(filtered)),
                        Tail(filtered))

\* rules.filter(r => r.enabled).length
EnabledCount(members) == Len(SelectSeq(members, LAMBDA r : r.enabled))

RuleGroupItem(entry) ==
    [groupName |-> entry.key, rules |-> entry.members,
     ruleCount |-> Len(entry.members),
     enabledCount |-> EnabledCount(entry.members),
     disabledCount |-> Len(entry.members) - EnabledCount(entry.members)]

\* the groupedRules memo
groupedRules(filtered) ==
    LET groups == GroupRulesInto(<<>>, filtered)
    IN  [i \in 1..Len(groups) |-> RuleGroupItem(groups[i])]

-----------------------------------------------------------------------------
(* The filter states and the state machine of the two pages.               *)

\* how much of the bound MaxActive a list of label entries uses: an entry
\* counts for its values, and for one when it holds none
RECURSIVE LabelEntriesSize(_)
LabelEntriesSize(entries) ==
    IF entries = <<>> THEN 0
    ELSE (IF Len(Head(entries).values) = 0 THEN 1 ELSE Len(Head(entries).values))
             + LabelEntriesSize(Tail(entries))

QuerySize(q) == IF q = <<>> THEN 0 ELSE 1

AlertFilterSize(f) ==
    Len(f.state) + Len(f.severity) + Len(f.datasourceType) + Len(f.datasourceId)
        + LabelEntriesSize(f.labels)

\* the truthy values the pool's alerts carry for a label key
PoolLabelValues(key) ==
    {LabelOf(a, key) : a \in {x \in AlertPool : Truthy(LabelOf(x, key))}}

PoolLabelKeys == UNION {DOMAIN a.labels : a \in AlertPool}

\* the label maps a filter state may hold: entries in insertion order, keys
\* distinct, every selected value one the panel can offer
LabelEntrySeqs ==
    LET Entries == UNION {{[key |-> k, values |-> v] :
                              v \in InjSeqs(PoolLabelValues(k), MaxActive)} :
                          k \in PoolLabelKeys}
    IN  {q \in InjSeqs(Entries, Cardinality(PoolLabelKeys)) :
            /\ \A i, j \in 1..Len(q) : i # j => q[i].key # q[j].key
            /\ LabelEntriesSize(q) <= MaxActive}

\* every AlertFilterState within the bound
AlertFilterStates ==
    {f \in [state : InjSeqs({a.state : a \in AlertPool}, MaxActive),
            severity : InjSeqs({a.severity : a \in AlertPool}, MaxActive),
            datasourceType : InjSeqs({a.datasourceType : a \in AlertPool}, MaxActive),
            datasourceId : InjSeqs({a.datasourceId : a \in AlertPool}, MaxActive),
            labels : LabelEntrySeqs,
            groupBy : {"none", "datasource", "state"}] :
        AlertFilterSize(f) <= MaxActive}

\* emptyFilters(), the initial FilterState of the monitors panel
emptyFilters ==
    [status |-> <<>>, severity |-> <<>>, monitorType |-> <<>>,
     healthStatus |-> <<>>, labels |-> <<>>, createdBy |-> <<>>,
     destinations |-> <<>>, backend |-> <<>>]

\* no handler has run yet
NoOp == [op |-> "none"]

\* a list request whose result fetchData has taken
Collected == [state |-> "fulfilled"]

\* fetchData has returned, its three requests having been fulfilled: nothing
\* was logged and the promise of fetchData is fulfilled
FetchDone ==
    [pc |-> "done", promise |-> "fulfilled", logged |-> FALSE,
     listAlerts |-> Collected, listRules |-> Collected,
     listDatasources |-> Collected]

\* the useState initial values of the rules tab, the clock at the mount
RulesTabFresh ==
    /\ filters = emptyFilters
    /\ savedSearches = <<>>
    /\ deletedRuleIds = {}
    /\ showCreateMonitor = FALSE
    /\ showAiWizard = FALSE
    /\ now = 0
    /\ lastOp = NoOp

\* The rules tab and the fetch of a page whose data has arrived and whose
\* rules tab has not been used.
SessionFresh ==
    /\ RulesTabFresh
    /\ datasources = <<>>
    /\ loading = FALSE
    /\ fetch = FetchDone

\* the useState initial values of the standalone page's alert tab
StandaloneFresh ==
    /\ alerts = <<>>
    /\ alertFilters = emptyAlertFilters
    /\ alertSearchQuery = <<>>

\* the useState initial values of the plugin page's search and filters
PluginFresh ==
    /\ searchQuery = <<>>
    /\ statusFilter = <<>>
    /\ severityFilter = <<>>
    /\ backendFilter = <<>>
    /\ viewMode = "list"

\* The inputs of the filter, facet and group computations: a page whose
\* fetch has returned any collection within the bounds and whose query and
\* filter state are any the page's types admit.
FilterInit ==
    \/ /\ page = "standalone"
       /\ alerts \in AlertCollections
       /\ alertFilters \in AlertFilterStates
       /\ alertSearchQuery \in Queries
       /\ AlertFilterSize(alertFilters) + QuerySize(alertSearchQuery) <= MaxActive
       /\ rules = <<>>
       /\ PluginFresh
       /\ SessionFresh
    \/ /\ page = "plugin"
       /\ rules \in RuleCollections
       /\ searchQuery \in Queries
       /\ statusFilter \in InjSeqs({enabledTxt, disabledTxt}, MaxActive)
       /\ severityFilter \in InjSeqs({r.severity : r \in RulePool}, MaxActive)
       /\ backendFilter \in InjSeqs({r.datasourceType : r \in RulePool}, MaxActive)
       /\ ruleActiveFilterCount(statusFilter, severityFilter, backendFilter)
              + QuerySize(searchQuery) <= MaxActive
       /\ viewMode \in {"list", "grouped"}
       /\ StandaloneFresh
       /\ SessionFresh

\* onFiltersChange={setAlertFilters}
SetAlertFilters(f) ==
    /\ page = "standalone"
    /\ AlertFilterSize(f) + QuerySize(alertSearchQuery) <= MaxActive
    /\ alertFilters' = f
    /\ UNCHANGED <<page, alerts, alertSearchQuery, rules, searchQuery,
                   statusFilter, severityFilter, backendFilter, viewMode>>
    /\ UNCHANGED sessionVars

\* a State / Severity checkbox; updateFilter(key, value) is { ...filters, [key]: value }
ToggleState ==
    \E i \in 1..Len(uniqueStates(alerts)) :
        SetAlertFilters([alertFilters EXCEPT
            !.state = ToggleOption(@, uniqueStates(alerts)[i])])

ToggleSeverity ==
    \E i \in 1..Len(uniqueSeverities(alerts)) :
        SetAlertFilters([alertFilters EXCEPT
            !.severity = ToggleOption(@, uniqueSeverities(alerts)[i])])

\* a checkbox of the Backend facet
ToggleBackend ==
    \E i \in 1..Len(uniqueBackends(alerts)) :
        SetAlertFilters([alertFilters EXCEPT
            !.datasourceType = ToggleOption(@, uniqueBackends(alerts)[i])])

\* a checkbox of the Data sources section
ToggleDatasource ==
    \E i \in 1..Len(uniqueDatasources(alerts)) :
        SetAlertFilters([alertFilters EXCEPT
            !.datasourceId = ToggleOption(@, uniqueDatasources(alerts)[i])])

\* a checkbox of a label facet
ToggleLabel ==
    \E k \in 1..Len(collectLabelKeys(alerts)) :
        LET key == collectLabelKeys(alerts)[k]
            options == collectLabelValues(alerts, key)
        IN  \E i \in 1..Len(options) :
                SetAlertFilters(updateLabelFilter(alertFilters, key,
                    ToggleOption(SelectedLabelValues(alertFilters, key), options[i])))

\* the Group by button group
SetGroupBy ==
    \E i \in 1..Len(groupByOptions) :
        SetAlertFilters([alertFilters EXCEPT !.groupBy = groupByOptions[i]])

\* the Clear button, shown while activeFilterCount > 0
ClearAllFilters ==
    /\ alertActiveFilterCount(alertFilters) > 0
    /\ SetAlertFilters(emptyAlertFilters)

\* the alerts search box
SetAlertSearchQuery ==
    /\ page = "standalone"
    /\ \E q \in Queries :
           /\ AlertFilterSize(alertFilters) + QuerySize(q) <= MaxActive
           /\ alertSearchQuery' = q
    /\ UNCHANGED <<page, alerts, alertFilters, rules, searchQuery,
                   statusFilter, severityFilter, backendFilter, viewMode>>
    /\ UNCHANGED sessionVars

\* the rules search box
SetSearchQuery ==
    /\ page = "plugin"
    /\ \E q \in Queries :
           /\ ruleActiveFilterCount(statusFilter, severityFilter, backendFilter)
                  + QuerySize(q) <= MaxActive
           /\ searchQuery' = q
    /\ UNCHANGED <<page, alerts, alertFilters, alertSearchQuery, rules,
                   statusFilter, severityFilter, backendFilter, viewMode>>
    /\ UNCHANGED sessionVars

\* handleStatusFilterChange on a click in the Status popover
StatusFilterChange ==
    /\ page = "plugin"
    /\ \E i \in 1..Len(statusOptions(statusFilter)) :
           statusFilter' = SelectedOf(ClickOption(statusOptions(statusFilter), i))
    /\ ruleActiveFilterCount(statusFilter', severityFilter, backendFilter)
           + QuerySize(searchQuery) <= MaxActive
    /\ UNCHANGED <<page, alerts, alertFilters, alertSearchQuery, rules,
                   searchQuery, severityFilter, backendFilter, viewMode>>
    /\ UNCHANGED sessionVars

\* handleSeverityFilterChange on a click in the Severity popover
SeverityFilterChange ==
    /\ page = "plugin"
    /\ \E i \in 1..Len(severityOptions(rules, severityFilter)) :
           severityFilter' =
               SelectedOf(ClickOption(severityOptions(rules, severityFilter), i))
    /\ ruleActiveFilterCount(statusFilter, severityFilter', backendFilter)
           + QuerySize(searchQuery) <= MaxActive
    /\ UNCHANGED <<page, alerts, alertFilters, alertSearchQuery, rules,
                   searchQuery, statusFilter, backendFilter, viewMode>>
    /\ UNCHANGED sessionVars

\* handleBackendFilterChange on a click in the Backend popover
BackendFilterChange ==
    /\ page = "plugin"
    /\ \E i \in 1..Len(backendOptions(rules, backendFilter)) :
           backendFilter' =
               SelectedOf(ClickOption(backendOptions(rules, backendFilter), i))
    /\ ruleActiveFilterCount(statusFilter, severityFilter, backendFilter')
           + QuerySize(searchQuery) <= MaxActive
    /\ UNCHANGED <<page, alerts, alertFilters, alertSearchQuery, rules,
                   searchQuery, statusFilter, severityFilter, viewMode>>
    /\ UNCHANGED sessionVars

\* the view mode button group
SetViewMode ==
    /\ page = "plugin"
    /\ \E m \in {"list", "grouped"} : viewMode' = m
    /\ UNCHANGED <<page, alerts, alertFilters, alertSearchQuery, rules,
                   searchQuery, statusFilter, severityFilter, backendFilter>>
    /\ UNCHANGED sessionVars

FilterNext ==
    \/ ToggleState
    \/ ToggleSeverity
    \/ ToggleBackend
    \/ ToggleDatasource
    \/ ToggleLabel
    \/ SetGroupBy
    \/ ClearAllFilters
    \/ SetAlertSearchQuery
    \/ SetSearchQuery
    \/ StatusFilterChange
    \/ SeverityFilterChange
    \/ BackendFilterChange
    \/ SetViewMode

FilterSpec == FilterInit /\ [][FilterNext]_vars

-----------------------------------------------------------------------------
(* The derived values of the current state.                                *)

FilteredAlerts == filteredAlerts(alerts, alertSearchQuery, alertFilters)

FilteredRules ==
    filteredRules(rules, searchQuery, statusFilter, severityFilter, backendFilter)

-----------------------------------------------------------------------------
(* What the claims are stated with.                                        *)

\* the records of a sequence
Range(q) == {q[i] : i \in 1..Len(q)}

\* the standard facets of an alert filter state
AlertFacets == {"state", "severity", "datasourceType", "datasourceId"}

\* sub is obtained from full by deleting records: either sub is empty, or
\* its head is found in full and its tail is a subsequence of what follows
RECURSIVE IsSubsequence(_, _)
IsSubsequence(sub, full) ==
    \/ sub = <<>>
    \/ /\ full # <<>>
       /\ IF Head(sub) = Head(full)
          THEN \/ IsSubsequence(Tail(sub), Tail(full))
               \/ IsSubsequence(sub, Tail(full))
          ELSE IsSubsequence(sub, Tail(full))

\* q occurs in the text, letters compared without regard to case
ContainsIgnoringCase(text, q) ==
    /\ text # undefined
    /\ \E i \in 0..(Len(text) - Len(q)) :
           \A j \in 1..Len(q) : LowerChar(text[i + j]) = LowerChar(q[j])

\* the record carries the label and its value is one of the selected values
CarriesSelectedLabel(rec, key, values) ==
    /\ key \in DOMAIN rec.labels
    /\ \E i \in 1..Len(values) : values[i] = rec.labels[key]

\* the value a rule has for the plugin page's status facet
DerivedStatus(rule) == IF rule.enabled THEN enabledTxt ELSE disabledTxt

AlertAccepted(a, q, f) ==
    /\ q # <<>> =>
           \/ ContainsIgnoringCase(a.name, q)
           \/ ContainsIgnoringCase(a.message, q)
           \/ ContainsIgnoringCase(a.state, q)
           \/ ContainsIgnoringCase(a.severity, q)
    /\ \A fac \in AlertFacets :
           f[fac] # <<>> => \E i \in 1..Len(f[fac]) : f[fac][i] = a[fac]
    /\ \A i \in 1..Len(f.labels) :
           f.labels[i].values # <<>> =>
               CarriesSelectedLabel(a, f.labels[i].key, f.labels[i].values)

RuleAccepted(r, q, statusF, severityF, backendF) ==
    /\ q # <<>> =>
           \/ ContainsIgnoringCase(r.name, q)
           \/ ContainsIgnoringCase(r.query, q)
           \/ ContainsIgnoringCase(r.group, q)
    /\ statusF # <<>> => \E i \in 1..Len(statusF) : statusF[i] = DerivedStatus(r)
    /\ severityF # <<>> => \E i \in 1..Len(severityF) : severityF[i] = r.severity
    /\ backendF # <<>> => \E i \in 1..Len(backendF) : backendF[i] = r.datasourceType

C3_FilterIdempotent ==
    /\ page = "standalone" =>
           filteredAlerts(FilteredAlerts, alertSearchQuery, alertFilters)
               = FilteredAlerts
    /\ page = "plugin" =>
           filteredRules(FilteredRules, searchQuery, statusFilter, severityFilter,
                         backendFilter) = FilteredRules

\* C3 happens: a state selection drops two adjacent alerts and keeps the
\* third, and filtering the one kept alert again keeps it
C3_Witness ==
    /\ page = "standalone"
    /\ alertFilters.state = <<active>>
    /\ Len(alerts) = 3
    /\ alerts[1].state = resolved
    /\ alerts[2].state = resolved
    /\ FilteredAlerts = <<alerts[3]>>
    /\ filteredAlerts(FilteredAlerts, alertSearchQuery, alertFilters) = <<alerts[3]>>

\* C4: the filtered output is a subsequence of the input: its records are
\* records of the input, none more often than there, in the same relative
\* order; an empty input gives an empty output.
C4_FilterIsSubsequence ==
    /\ page = "standalone" =>
        /\ IsSubsequence(FilteredAlerts, alerts)
        /\ alerts = <<>> => FilteredAlerts = <<>>
    /\ page = "plugin" =>
        /\ IsSubsequence(FilteredRules, rules)
        /\ rules = <<>> => FilteredRules = <<>>

\* C4 happens: of three alerts the middle one is filtered out and the other
\* two are shown in their original order
C4_Witness ==
    /\ page = "standalone"
    /\ Len(alerts) = 3
    /\ alertActiveFilterCount(alertFilters) + QuerySize(alertSearchQuery) > 0
    /\ FilteredAlerts = <<alerts[1], alerts[3]>>

\* C5: for a label key with a non-empty selection an alert passes exactly
\* when it carries that key with a selected value, an alert without the key
\* fails, and several label keys with non-empty selections must all pass:
\* the filtered list is what the other constraints keep, restricted to the
\* alerts that carry a selected value for every such key.
C5_LabelFacetSemantics ==
    page = "standalone" =>
        LET entries == alertFilters.labels
            others == filteredAlerts(alerts, alertSearchQuery,
                                     [alertFilters EXCEPT !.labels = <<>>])
        IN  /\ FilteredAlerts = SelectSeq(others, LAMBDA a :
                   \A i \in 1..Len(entries) : entries[i].values # <<>> =>
                       CarriesSelectedLabel(a, entries[i].key, entries[i].values))
            /\ \A i \in 1..Len(entries) : entries[i].values # <<>> =>
                   \A a \in Range(FilteredAlerts) :
                       /\ entries[i].key \in DOMAIN a.labels
                       /\ a.labels[entries[i].key] \in Range(entries[i].values)

\* C5 happens: alerts labelled {service: a}, {service: b} and {} with the one
\* selection service = [a] show exactly the first alert
C5_Witness ==
    /\ page = "standalone"
    /\ Len(alerts) = 3
    /\ alerts[1].labels = Labels1(service, <<"a">>)
    /\ alerts[2].labels = Labels1(service, <<"b">>)
    /\ alerts[3].labels = NoLabels
    /\ alertSearchQuery = <<>>
    /\ alertFilters.labels = <<[key |-> service, values |-> << <<"a">> >>]>>
    /\ alertActiveFilterCount(alertFilters) = 1
    /\ FilteredAlerts = <<alerts[1]>>

\* C5 also happens with two label keys selected: an alert that passes one of
\* them alone is dropped because it does not carry the other
C5_WitnessTwoKeys ==
    /\ page = "standalone"
    /\ Len(alertFilters.labels) = 2
    /\ \A i \in 1..2 : alertFilters.labels[i].values # <<>>
    /\ \E a \in Range(alerts) :
           /\ CarriesSelectedLabel(a, alertFilters.labels[1].key,
                                   alertFilters.labels[1].values)
           /\ alertFilters.labels[2].key \notin DOMAIN a.labels
           /\ a \notin Range(FilteredAlerts)

\* C6: a non-empty query keeps a record exactly when, letters compared
\* without regard to case, the query occurs in one of its text fields (alert:
\* name, message, state, severity; rule: name, query, group); a missing
\* optional field does not match; an empty query keeps every record.
C6_FreeTextQuery ==
    /\ page = "standalone" =>
           FilteredAlerts =
               SelectSeq(filteredAlerts(alerts, <<>>, alertFilters), LAMBDA a :
                   \/ alertSearchQuery = <<>>
                   \/ ContainsIgnoringCase(a.name, alertSearchQuery)
                   \/ ContainsIgnoringCase(a.message, alertSearchQuery)
                   \/ ContainsIgnoringCase(a.state, alertSearchQuery)
                   \/ ContainsIgnoringCase(a.severity, alertSearchQuery))
    /\ page = "plugin" =>
           FilteredRules =
               SelectSeq(filteredRules(rules, <<>>, statusFilter, severityFilter,
                                       backendFilter), LAMBDA r :
                   \/ searchQuery = <<>>
                   \/ ContainsIgnoringCase(r.name, searchQuery)
                   \/ ContainsIgnoringCase(r.query, searchQuery)
                   \/ ContainsIgnoringCase(r.group, searchQuery))

\* C6 happens: the query "AB" keeps an alert whose only match is its message
\* "aB" and drops an alert with no message
C6_Witness ==
    /\ page = "standalone"
    /\ alertSearchQuery = <<"A","B">>
    /\ \E a \in Range(FilteredAlerts) :
           /\ a.message = <<"a","B">>
           /\ ~ContainsIgnoringCase(a.name, alertSearchQuery)
    /\ \E a \in Range(alerts) :
           a.message = undefined /\ a \notin Range(FilteredAlerts)

\* the current grouping of the filtered alerts (groupBy other than none) and
\* of the filtered rules, with the items their tables show
GroupedAlerts == groupedAlerts(FilteredAlerts, alertFilters.groupBy)
GroupedAlertItems == AlertGroupItems(GroupedAlerts)
GroupedRules == groupedRules(FilteredRules)

\* the key an alert or a rule is to be grouped under
KeyOfAlert(a) ==
    IF alertFilters.groupBy = "datasource" THEN a.datasourceId ELSE a.state
KeyOfRule(r) == IF r.group \in {undefined, <<>>} THEN Ungrouped ELSE r.group

RECURSIVE SumOf(_)
SumOf(numbers) ==
    IF numbers = <<>> THEN 0 ELSE Head(numbers) + SumOf(Tail(numbers))

\* C7: grouping partitions the filtered collection, for alerts grouped by
\* datasource id or by state and for rules grouped by group name (absent or
\* empty group named 'Ungrouped'): every filtered record is in exactly one
\* bucket and once, every bucket is non-empty, every member has its bucket's
\* key, no two buckets have the same key, and the bucket counts sum to the
\* length of the filtered collection.
C7_GroupingIsPartition ==
    /\ (page = "standalone" /\ alertFilters.groupBy # "none") =>
        LET items == GroupedAlertItems IN
        /\ \A a \in Range(FilteredAlerts) :
               Cardinality({i \in 1..Len(items) : a \in Range(items[i].alerts)}) = 1
        /\ \A i \in 1..Len(items) :
               /\ items[i].alerts # <<>>
               /\ items[i].count = Len(items[i].alerts)
               /\ Cardinality(Range(items[i].alerts)) = Len(items[i].alerts)
               /\ Range(items[i].alerts) \subseteq Range(FilteredAlerts)
               /\ \A a \in Range(items[i].alerts) : KeyOfAlert(a) = items[i].groupKey
               /\ \A j \in 1..Len(items) :
                      i # j => items[i].groupKey # items[j].groupKey
        /\ SumOf([i \in 1..Len(items) |-> items[i].count]) = Len(FilteredAlerts)
    /\ page = "plugin" =>
        LET items == GroupedRules IN
        /\ \A r \in Range(FilteredRules) :
               Cardinality({i \in 1..Len(items) : r \in Range(items[i].rules)}) = 1
        /\ \A i \in 1..Len(items) :
               /\ items[i].rules # <<>>
               /\ items[i].ruleCount = Len(items[i].rules)
               /\ Cardinality(Range(items[i].rules)) = Len(items[i].rules)
               /\ Range(items[i].rules) \subseteq Range(FilteredRules)
               /\ \A r \in Range(items[i].rules) : KeyOfRule(r) = items[i].groupName
               /\ \A j \in 1..Len(items) :
                      i # j => items[i].groupName # items[j].groupName
        /\ SumOf([i \in 1..Len(items) |-> items[i].ruleCount]) = Len(FilteredRules)

\* C7 happens: three shown alerts with states active, active, resolved are
\* grouped by state into a bucket active of two and a bucket resolved of one
C7_Witness ==
    /\ page = "standalone"
    /\ alertFilters.groupBy = "state"
    /\ Len(FilteredAlerts) = 3
    /\ [i \in 1..3 |-> FilteredAlerts[i].state] = <<active, active, resolved>>
    /\ Len(GroupedAlertItems) = 2
    /\ GroupedAlertItems[1].groupKey = active /\ GroupedAlertItems[1].count = 2
    /\ GroupedAlertItems[2].groupKey = resolved /\ GroupedAlertItems[2].count = 1

\* C7 also happens for rules: a rule without a group and a rule with an
\* empty group share the bucket Ungrouped
C7_WitnessRules ==
    /\ page = "plugin"
    /\ \E i \in 1..Len(GroupedRules) :
           /\ GroupedRules[i].groupName = Ungrouped
           /\ \E r1, r2 \in Range(GroupedRules[i].rules) :
                  r1.group = undefined /\ r2.group = <<>>
    /\ Len(GroupedRules) = 2

\* position at which a key first occurs in a sequence of keys
FirstAt(keys, k) == CHOOSE i \in 1..Len(keys) :
                        keys[i] = k /\ \A j \in 1..(i - 1) : keys[j] # k

\* C8: buckets are listed in the order in which their keys first appear in
\* the filtered collection, and the members of a bucket are the filtered
\* records with its key in their order in the filtered collection.
C8_GroupOrderIsFirstAppearance ==
    /\ (page = "standalone" /\ alertFilters.groupBy # "none") =>
        LET items == GroupedAlertItems
            keys == [i \in 1..Len(FilteredAlerts) |-> KeyOfAlert(FilteredAlerts[i])]
        IN  /\ \A i, j \in 1..Len(items) : i < j =>
                   FirstAt(keys, items[i].groupKey) < FirstAt(keys, items[j].groupKey)
            /\ \A i \in 1..Len(items) :
                   items[i].alerts = SelectSeq(FilteredAlerts,
                       LAMBDA a : KeyOfAlert(a) = items[i].groupKey)
    /\ page = "plugin" =>
        LET items == GroupedRules
            keys == [i \in 1..Len(FilteredRules) |-> KeyOfRule(FilteredRules[i])]
        IN  /\ \A i, j \in 1..Len(items) : i < j =>
                   FirstAt(keys, items[i].groupName) < FirstAt(keys, items[j].groupName)
            /\ \A i \in 1..Len(items) :
                   items[i].rules = SelectSeq(FilteredRules,
                       LAMBDA r : KeyOfRule(r) = items[i].groupName)

\* C8 happens: grouped by datasource, the bucket ds-2 is listed before the
\* bucket ds-1 because an alert of ds-2 comes first, and its two members,
\* which are not adjacent in the filtered list, keep their order
C8_Witness ==
    /\ page = "standalone"
    /\ alertFilters.groupBy = "datasource"
    /\ Len(FilteredAlerts) = 3
    /\ Len(GroupedAlertItems) = 2
    /\ GroupedAlertItems[1].groupKey = ds2
    /\ GroupedAlertItems[2].groupKey = ds1
    /\ GroupedAlertItems[1].alerts = <<FilteredAlerts[1], FilteredAlerts[3]>>
    /\ GroupedAlertItems[2].alerts = <<FilteredAlerts[2]>>

\* a breakdown agrees with the members it was computed from: one entry per
\* value that occurs, holding the number of members with that value, the
\* entries summing to the number of members
BreakdownAgrees(breakdown, values) ==
    /\ \A i \in 1..Len(breakdown) :
           /\ breakdown[i].count =
                  Cardinality({k \in 1..Len(values) : values[k] = breakdown[i].key})
           /\ breakdown[i].count > 0
           /\ \A j \in 1..Len(breakdown) : i # j => breakdown[i].key # breakdown[j].key
    /\ \A k \in 1..Len(values) :
           \E i \in 1..Len(breakdown) : breakdown[i].key = values[k]
    /\ SumOf([i \in 1..Len(breakdown) |-> breakdown[i].count]) = Len(values)

\* the badges shown for a breakdown are its entries, in ascending order of key
DisplayedSorted(badges, breakdown) ==
    /\ Len(badges) = Len(breakdown)
    /\ Range(badges) = Range(breakdown)
    /\ \A i, j \in 1..Len(badges) : i < j => StrLess(badges[i].key, badges[j].key)

\* C9: the aggregates of every bucket agree with its members: the per-state
\* and per-severity counts of an alert bucket each hold, per value, the number
\* of members with that value, sum to the bucket's count, and are displayed in
\* ascending order of key; a rule bucket's enabledCount is the number of its
\* members that are enabled and enabledCount + disabledCount = ruleCount.
C9_BucketAggregatesAgree ==
    /\ (page = "standalone" /\ alertFilters.groupBy # "none") =>
        \A i \in 1..Len(GroupedAlertItems) :
            LET item == GroupedAlertItems[i]
                states == [k \in 1..Len(item.alerts) |-> item.alerts[k].state]
                severities == [k \in 1..Len(item.alerts) |-> item.alerts[k].severity]
            IN  /\ item.count = Len(item.alerts)
                /\ BreakdownAgrees(item.stateBreakdown, states)
                /\ BreakdownAgrees(item.severityBreakdown, severities)
                /\ DisplayedSorted(BreakdownBadges(item.stateBreakdown),
                                   item.stateBreakdown)
                /\ DisplayedSorted(BreakdownBadges(item.severityBreakdown),
                                   item.severityBreakdown)
    /\ page = "plugin" =>
        \A i \in 1..Len(GroupedRules) :
            LET item == GroupedRules[i] IN
            /\ item.ruleCount = Len(item.rules)
            /\ item.enabledCount =
                   Cardinality({k \in 1..Len(item.rules) : item.rules[k].enabled})
            /\ item.enabledCount + item.disabledCount = item.ruleCount

\* C9 happens: a bucket of two alerts, both active, one high and then one
\* critical, shows the state count active 2 and the severity counts in the
\* order critical 1, high 1, which is not the order they were counted in
C9_Witness ==
    /\ page = "standalone"
    /\ alertFilters.groupBy = "datasource"
    /\ \E i \in 1..Len(GroupedAlertItems) :
           LET item == GroupedAlertItems[i] IN
           /\ item.count = 2
           /\ item.stateBreakdown = <<[key |-> active, count |-> 2]>>
           /\ item.severityBreakdown =
                  <<[key |-> high, count |-> 1], [key |-> critical, count |-> 1]>>
           /\ BreakdownBadges(item.severityBreakdown) =
                  <<[key |-> critical, count |-> 1], [key |-> high, count |-> 1]>>

\* C9 also happens for rules: a bucket with an enabled and a disabled member
C9_WitnessRules ==
    /\ page = "plugin"
    /\ \E i \in 1..Len(GroupedRules) :
           /\ GroupedRules[i].ruleCount = 2
           /\ GroupedRules[i].enabledCount = 1
           /\ GroupedRules[i].disabledCount = 1

\* a facet's value list is strictly ascending (so without duplicates), holds
\* no empty value, and holds exactly the non-empty values that occur
SortedDistinct(list, occurring) ==
    /\ \A i, j \in 1..Len(list) : i < j => StrLess(list[i], list[j])
    /\ \A i \in 1..Len(list) : list[i] # <<>>
    /\ Range(list) = {v \in occurring : v \notin {<<>>, undefined}}

\* the values a popover of the plugin page offers: handle*FilterChange takes
\* each option's value to be its label in lower case
OfferedValues(options) == [i \in 1..Len(options) |-> toLowerCase(options[i].label)]

\* the facets of the alerts filters panel, over the page's alerts
AlertsPanelFacetsConform ==
    /\ SortedDistinct(uniqueStates(alerts), {a.state : a \in Range(alerts)})
    /\ SortedDistinct(uniqueSeverities(alerts), {a.severity : a \in Range(alerts)})
    /\ SortedDistinct(uniqueBackends(alerts), {a.datasourceType : a \in Range(alerts)})
    /\ SortedDistinct(uniqueDatasources(alerts), {a.datasourceId : a \in Range(alerts)})
    /\ SortedDistinct(collectLabelKeys(alerts),
                      UNION {DOMAIN a.labels : a \in Range(alerts)})
    /\ Range(collectLabelKeys(alerts)) = UNION {DOMAIN a.labels : a \in Range(alerts)}
    /\ \A key \in PoolLabelKeys :
           SortedDistinct(collectLabelValues(alerts, key),
                          {LabelOf(a, key) : a \in Range(alerts)})

\* the facets of the monitors filters panel, over the page's rules
MonitorsPanelFacetsConform ==
    /\ SortedDistinct(uniqueStatuses(rules), {r.status : r \in Range(rules)})
    /\ SortedDistinct(uniqueRuleSeverities(rules), {r.severity : r \in Range(rules)})
    /\ SortedDistinct(uniqueTypes(rules), {r.monitorType : r \in Range(rules)})
    /\ SortedDistinct(uniqueHealth(rules), {r.healthStatus : r \in Range(rules)})
    /\ SortedDistinct(uniqueCreators(rules), {r.createdBy : r \in Range(rules)})
    /\ SortedDistinct(uniqueRuleBackends(rules), {r.datasourceType : r \in Range(rules)})
    /\ SortedDistinct(collectRuleLabelKeys(rules),
                      UNION {DOMAIN r.labels : r \in Range(rules)})
    /\ Range(collectRuleLabelKeys(rules)) = UNION {DOMAIN r.labels : r \in Range(rules)}
    /\ \A key \in UNION {DOMAIN r.labels : r \in RulePool} :
           SortedDistinct(collectRuleLabelValues(rules, key),
                          {LabelOf(r, key) : r \in Range(rules)})

\* the Severity and Backend popovers of the plugin page, over the page's rules
PopoverFacetsConform ==
    /\ SortedDistinct(OfferedValues(severityOptions(rules, severityFilter)),
                      {r.severity : r \in Range(rules)})
    /\ SortedDistinct(OfferedValues(backendOptions(rules, backendFilter)),
                      {r.datasourceType : r \in Range(rules)})

\* C10, for the two filters panels only: every facet they offer (state,
\* severity, backend type, datasource id, the label keys, each label key's
\* values, and the rule facets) is sorted ascending, without duplicate or
\* empty value, and holds exactly the non-empty values that occur.
C10_PanelFacetsSortedDistinct ==
    /\ page = "standalone" => AlertsPanelFacetsConform
    /\ page = "plugin" => MonitorsPanelFacetsConform

\* C10: for every record collection and every facet offered to the user,
\* the Severity and Backend popovers of the plugin page included, the list of
\* distinct values is sorted ascending, has no duplicate and no empty value,
\* and holds exactly the non-empty values that occur in the collection; the
\* label-key list is the union of the label keys of all records.
C10_FacetValuesSortedDistinct ==
    /\ page = "standalone" => AlertsPanelFacetsConform
    /\ page = "plugin" => MonitorsPanelFacetsConform /\ PopoverFacetsConform

-----------------------------------------------------------------------------
(* The facet counts of the two filters panels.                             *)

\* for (const rec of records) counts[v] = (counts[v] || 0) + 1, given the
\* value of each record in order
RECURSIVE CountAll(_)
CountAll(values) ==
    IF values = <<>> THEN <<>>
    ELSE CountInto(CountAll(SubSeq(values, 1, Len(values) - 1)), values[Len(values)])

\* facetCounts.counts of the alerts panel
alertFacetCounts(as) ==
    [state |-> CountAll([i \in 1..Len(as) |-> as[i].state]),
     severity |-> CountAll([i \in 1..Len(as) |-> as[i].severity]),
     datasourceType |-> CountAll([i \in 1..Len(as) |-> as[i].datasourceType]),
     datasourceId |-> CountAll([i \in 1..Len(as) |-> as[i].datasourceId])]

\* facetCounts.labelCounts[key] of either panel: if (v) labelCounts[key][v] += 1
labelCounts(recs, key) ==
    CountAll(TruthyOnly([i \in 1..Len(recs) |-> LabelOf(recs[i], key)]))

\* facetCounts.counts of the monitors panel
ruleFacetCounts(rs) ==
    [status |-> CountAll([i \in 1..Len(rs) |-> rs[i].status]),
     severity |-> CountAll([i \in 1..Len(rs) |-> rs[i].severity]),
     monitorType |-> CountAll([i \in 1..Len(rs) |-> rs[i].monitorType]),
     healthStatus |-> CountAll([i \in 1..Len(rs) |-> rs[i].healthStatus]),
     backend |-> CountAll([i \in 1..Len(rs) |-> rs[i].datasourceType]),
     createdBy |-> CountAll([i \in 1..Len(rs) |-> rs[i].createdBy])]

\* mutant of ShownCount: the option shows whether the value occurs, not how
\* often
ShownCount_Presence(counts, opt) ==
    IF IndexOfKey(counts, opt) = 0 THEN 0 ELSE 1

\* const count = counts[opt] || 0: the number shown beside an option
ShownCount(counts, opt) ==
    LET i == IndexOfKey(counts, opt)
    IN  IF i = 0 THEN 0 ELSE counts[i].count

\* A page that has fetched its collection and whose query and filters are
\* still the initial ones; the panels' controls are then used.
FacetInit ==
    \/ /\ page = "standalone"
       /\ alerts \in AlertCollections
       /\ rules = <<>>
       /\ alertFilters = emptyAlertFilters
       /\ alertSearchQuery = <<>>
       /\ PluginFresh
       /\ SessionFresh
    \/ /\ page = "plugin"
       /\ rules \in RuleCollections
       /\ PluginFresh
       /\ StandaloneFresh
       /\ SessionFresh

FacetSpec == FacetInit /\ [][FilterNext]_vars

\* the number of records whose value is v, given the value of each record
Occurrences(values, v) == Cardinality({i \in 1..Len(values) : values[i] = v})

\* the counts shown for a facet's options are right: each offered value shows
\* the number of records with that value, and together the offered values
\* account for exactly the records whose value is neither absent nor empty
CountsAgree(options, counts, values) ==
    /\ \A i \in 1..Len(options) :
           ShownCount(counts, options[i]) = Occurrences(values, options[i])
    /\ SumOf([i \in 1..Len(options) |-> ShownCount(counts, options[i])])
           = Cardinality({i \in 1..Len(values) : values[i] \notin {<<>>, undefined}})

\* C11: for every facet and every value offered for it, the count shown is
\* the number of records of the collection with that value for the facet
\* (for a label key: with that value for the label), and records whose
\* value is absent or empty are counted under no offered value.
C11_FacetCountsAgree ==
    /\ page = "standalone" =>
        LET c == alertFacetCounts(alerts) IN
        /\ CountsAgree(uniqueStates(alerts), c.state,
                       [i \in 1..Len(alerts) |-> alerts[i].state])
        /\ CountsAgree(uniqueSeverities(alerts), c.severity,
                       [i \in 1..Len(alerts) |-> alerts[i].severity])
        /\ CountsAgree(uniqueBackends(alerts), c.datasourceType,
                       [i \in 1..Len(alerts) |-> alerts[i].datasourceType])
        /\ CountsAgree(uniqueDatasources(alerts), c.datasourceId,
                       [i \in 1..Len(alerts) |-> alerts[i].datasourceId])
        /\ \A k \in 1..Len(collectLabelKeys(alerts)) :
               LET key == collectLabelKeys(alerts)[k] IN
               CountsAgree(collectLabelValues(alerts, key), labelCounts(alerts, key),
                           [i \in 1..Len(alerts) |-> LabelOf(alerts[i], key)])
    /\ page = "plugin" =>
        LET c == ruleFacetCounts(rules) IN
        /\ CountsAgree(uniqueStatuses(rules), c.status,
                       [i \in 1..Len(rules) |-> rules[i].status])
        /\ CountsAgree(uniqueRuleSeverities(rules), c.severity,
                       [i \in 1..Len(rules) |-> rules[i].severity])
        /\ CountsAgree(uniqueTypes(rules), c.monitorType,
                       [i \in 1..Len(rules) |-> rules[i].monitorType])
        /\ CountsAgree(uniqueHealth(rules), c.healthStatus,
                       [i \in 1..Len(rules) |-> rules[i].healthStatus])
        /\ CountsAgree(uniqueRuleBackends(rules), c.backend,
                       [i \in 1..Len(rules) |-> rules[i].datasourceType])
        /\ CountsAgree(uniqueCreators(rules), c.createdBy,
                       [i \in 1..Len(rules) |-> rules[i].createdBy])
        /\ \A k \in 1..Len(collectRuleLabelKeys(rules)) :
               LET key == collectRuleLabelKeys(rules)[k] IN
               CountsAgree(collectRuleLabelValues(rules, key), labelCounts(rules, key),
                           [i \in 1..Len(rules) |-> LabelOf(rules[i], key)])

\* C11 happens: of three alerts two are active, so the option active shows
\* 2; one alert has an empty service label and one has none, so the options
\* of the service facet account for one alert only
C11_Witness ==
    /\ page = "standalone"
    /\ Len(alerts) = 3
    /\ ShownCount(alertFacetCounts(alerts).state, active) = 2
    /\ \E i, j \in 1..3 :
           /\ LabelOf(alerts[i], service) = <<>>
           /\ LabelOf(alerts[j], service) = undefined
    /\ Len(collectLabelValues(alerts, service)) = 1
    /\ ShownCount(labelCounts(alerts, service), collectLabelValues(alerts, service)[1]) = 1

-----------------------------------------------------------------------------
(* standalone page, rules tab: the monitors filter state and the saved     *)
(* searches.                                                               *)

\* longest collection the rules tab of this section works on
MaxSearchRules == 1
\* longest saved-search list
MaxSaved == 2
\* latest reading of the clock, in milliseconds after the page was mounted
MaxClock == 1
\* most selected values and label entries of a monitors filter state
MaxSelected == 1

\* the variables the alerts tab, the plugin page and the fetch own
alertTabVars == <<page, alerts, alertFilters, alertSearchQuery>>
popoverVars == <<statusFilter, severityFilter, backendFilter, viewMode>>
fetchVars == <<datasources, loading, fetch>>
dialogVars == <<showCreateMonitor, showAiWizard>>

\* activeFilterCount of the monitors panel; destinations are not counted
activeFilterCount(f) ==
    Len(f.status) + Len(f.severity) + Len(f.monitorType) + Len(f.healthStatus)
        + Len(f.createdBy) + Len(f.backend) + SumLabelValues(f.labels)

\* size of a monitors filter state: its selected values, a label entry
\* without values counting as one
FilterStateSize(f) ==
    activeFilterCount(f)
        + Cardinality({k \in 1..Len(f.labels) : f.labels[k].values = <<>>})

\* the options of the six standard facets of the monitors panel
FacetOptions(rs) ==
    [status |-> uniqueStatuses(rs), severity |-> uniqueRuleSeverities(rs),
     monitorType |-> uniqueTypes(rs), healthStatus |-> uniqueHealth(rs),
     backend |-> uniqueRuleBackends(rs), createdBy |-> uniqueCreators(rs)]

\* the id template literals: `ss-${Date.now()}` and the like
TemplateId(prefix, t) == prefix \o "-" \o ToString(t)

\* a SavedSearch
SavedSearch(id, name, query, f) ==
    [id |-> id, name |-> name, query |-> query, filters |-> f]

\* what is typed into the search box of the monitors table
SearchQueries == {<<>>, <<"a">>}

\* what prompt() returns: null when cancelled, else the text typed
PromptAnswers == {null, <<>>, <<"n">>}

saveCurrentSearch_Prepending(prev, name, t, query, f) ==
    IF name = null \/ name = <<>> THEN prev
    ELSE <<SavedSearch(TemplateId("ss", t), name, query, f)>> \o prev

\* saveCurrentSearch: if (!name) return; setSavedSearches(prev => [...prev, {...}])
saveCurrentSearch(prev, name, t, query, f) ==
    IF name = null \/ name = <<>> THEN prev
    ELSE Append(prev, SavedSearch(TemplateId("ss", t), name, query, f))

loadSavedSearch_QueryOnly(ss) == [searchQuery |-> ss.query, filters |-> emptyFilters]

\* loadSavedSearch: setSearchQuery(ss.query); setFilters(ss.filters)
loadSavedSearch(ss) == [searchQuery |-> ss.query, filters |-> ss.filters]

deleteSavedSearch_Inverted(prev, id) == SelectSeq(prev, LAMBDA s : s.id = id)

\* deleteSavedSearch: prev.filter(s => s.id !== id)
deleteSavedSearch(prev, id) == SelectSeq(prev, LAMBDA s : s.id # id)

\* a facet value of the current filter state that a snapshot does not select
SelectsBeyond(f, snapshot) ==
    \/ \E key \in DOMAIN FacetOptions(<<>>) :
           \E i \in 1..Len(f[key]) : ~Has(snapshot[key], f[key][i])
    \/ \E k \in 1..Len(f.labels) : \E i \in 1..Len(f.labels[k].values) :
           ~Has(SelectedLabelValues(snapshot, f.labels[k].key), f.labels[k].values[i])

\* onFiltersChange={setFilters}
SetFilters(f) ==
    /\ page = "standalone"
    /\ FilterStateSize(f) <= MaxSelected
    /\ filters' = f
    /\ lastOp' = [op |-> "setFilters"]
    /\ UNCHANGED <<alertTabVars, popoverVars, fetchVars, dialogVars, rules,
                   searchQuery, savedSearches, deletedRuleIds, now>>

\* a checkbox of a standard facet; updateFilter(key, value)
UpdateFilter ==
    \E key \in DOMAIN FacetOptions(rules) :
        \E i \in 1..Len(FacetOptions(rules)[key]) :
            SetFilters([filters EXCEPT
                ![key] = ToggleOption(@, FacetOptions(rules)[key][i])])

\* a checkbox of a label facet; updateLabelFilter(key, values)
UpdateLabelFilter ==
    \E k \in 1..Len(collectRuleLabelKeys(rules)) :
        LET key == collectRuleLabelKeys(rules)[k]
            options == collectRuleLabelValues(rules, key)
        IN  \E i \in 1..Len(options) :
                SetFilters(updateLabelFilter(filters, key,
                    ToggleOption(SelectedLabelValues(filters, key), options[i])))

\* the Clear all button of the monitors panel, shown while activeFilterCount > 0
ClearMonitorFilters ==
    /\ activeFilterCount(filters) > 0
    /\ SetFilters(emptyFilters)

\* onSearchChange={setSearchQuery} of the monitors table
SearchChange ==
    /\ page = "standalone"
    /\ \E q \in SearchQueries : searchQuery' = q
    /\ lastOp' = [op |-> "setSearchQuery"]
    /\ UNCHANGED <<alertTabVars, popoverVars, fetchVars, dialogVars, rules,
                   filters, savedSearches, deletedRuleIds, now>>

\* the Save current button, disabled while there is neither a query nor an
\* active filter; the prompt is answered or cancelled
SaveCurrentSearch ==
    /\ page = "standalone"
    /\ Truthy(searchQuery) \/ activeFilterCount(filters) > 0
    /\ Len(savedSearches) < MaxSaved
    /\ \E name \in PromptAnswers :
           /\ savedSearches' =
                  saveCurrentSearch(savedSearches, name, now, searchQuery, filters)
           /\ lastOp' = [op |-> "save", name |-> name]
    /\ UNCHANGED <<alertTabVars, popoverVars, fetchVars, dialogVars, rules,
                   searchQuery, filters, deletedRuleIds, now>>

\* a click on the name of a saved search: onLoadSearch(ss)
LoadSavedSearch ==
    /\ page = "standalone"
    /\ \E i \in 1..Len(savedSearches) :
           /\ searchQuery' = loadSavedSearch(savedSearches[i]).searchQuery
           /\ filters' = loadSavedSearch(savedSearches[i]).filters
           /\ lastOp' = [op |-> "load", i |-> i,
                         dropped |-> SelectsBeyond(filters, savedSearches[i].filters)]
    /\ UNCHANGED <<alertTabVars, popoverVars, fetchVars, dialogVars, rules,
                   savedSearches, deletedRuleIds, now>>

\* a click on the cross of a saved search: onDeleteSearch(ss.id)
DeleteSavedSearch ==
    /\ page = "standalone"
    /\ \E i \in 1..Len(savedSearches) :
           /\ savedSearches' = deleteSavedSearch(savedSearches, savedSearches[i].id)
           /\ lastOp' = [op |-> "delete", id |-> savedSearches[i].id]
    /\ UNCHANGED <<alertTabVars, popoverVars, fetchVars, dialogVars, rules,
                   searchQuery, filters, deletedRuleIds, now>>

\* a millisecond passes
Tick ==
    /\ now < MaxClock
    /\ now' = now + 1
    /\ lastOp' = [op |-> "tick"]
    /\ UNCHANGED <<alertTabVars, popoverVars, fetchVars, dialogVars, rules,
                   searchQuery, filters, savedSearches, deletedRuleIds>>

\* the rules the fetch of this section may return: a rule with a label and a
\* rule with a label and an empty label value
SearchRulePool == {r \in RulePool : r.id \in {"r1", "r3"}}

\* The rules tab of a page whose fetch returned a rules collection.
SearchInit ==
    /\ page = "standalone"
    /\ StandaloneFresh
    /\ PluginFresh
    /\ SessionFresh
    /\ rules \in InjSeqs(SearchRulePool, MaxSearchRules)

SearchNext ==
    \/ UpdateFilter
    \/ UpdateLabelFilter
    \/ ClearMonitorFilters
    \/ SearchChange
    \/ SaveCurrentSearch
    \/ LoadSavedSearch
    \/ DeleteSavedSearch
    \/ Tick

SearchSpec == SearchInit /\ [][SearchNext]_vars

\* everything a saved-search handler may leave alone besides the list
NothingButSearchesChanges ==
    UNCHANGED <<alertTabVars, popoverVars, fetchVars, dialogVars, rules,
                searchQuery, filters, deletedRuleIds, now>>

\* C12: a save whose prompt was answered with a non-empty name appends one
\* entry holding that name, the current query and the current filter state
\* at the end of the saved-search list, the entries before it being the old
\* list; a save whose prompt was cancelled or answered with the empty string
\* changes nothing.
C12_SaveAppendsOneEntry ==
    [][lastOp'.op = "save" =>
        /\ NothingButSearchesChanges
        /\ IF lastOp'.name \in {null, <<>>}
           THEN savedSearches' = savedSearches
           ELSE /\ Len(savedSearches') = Len(savedSearches) + 1
                /\ SubSeq(savedSearches', 1, Len(savedSearches)) = savedSearches
                /\ LET entry == savedSearches'[Len(savedSearches')]
                   IN  /\ entry.name = lastOp'.name
                       /\ entry.query = searchQuery
                       /\ entry.filters = filters]_vars

\* a named save that appended to a non-empty list a search with a query or a filter
C12_Witness ==
    /\ lastOp = [op |-> "save", name |-> <<"n">>]
    /\ Len(savedSearches) = 2
    /\ savedSearches[2].query = searchQuery
    /\ savedSearches[2].filters = filters
    /\ savedSearches[1].filters # savedSearches[2].filters

\* a cancelled save and a save with the empty name, on a non-empty list
C12_WitnessRefused ==
    /\ lastOp.op = "save"
    /\ lastOp.name = null
    /\ savedSearches # <<>>

\* C13: no two entries of the saved-search list have the same id, also when
\* two saves happen within one millisecond.
C13_SavedSearchIdsUnique ==
    \A i, j \in 1..Len(savedSearches) :
        i # j => savedSearches[i].id # savedSearches[j].id

\* C14: a load sets the query and the filter state to those stored in the
\* loaded entry, whatever the current ones are (the filter state is replaced,
\* so nothing selected before survives unless the snapshot selects it), and
\* leaves the list alone; and an entry, once in the list, never changes, a
\* new entry holding the query and the filter state current at its save: so
\* what a load restores is what was current when the entry was saved.
C14_LoadRestoresSnapshot ==
    [][/\ lastOp'.op = "load" =>
              /\ searchQuery' = savedSearches[lastOp'.i].query
              /\ filters' = savedSearches[lastOp'.i].filters
              /\ ~SelectsBeyond(filters', savedSearches[lastOp'.i].filters)
              /\ savedSearches' = savedSearches
       /\ \A j \in 1..Len(savedSearches') :
              \/ \E k \in 1..Len(savedSearches) : savedSearches'[j] = savedSearches[k]
              \/ /\ lastOp'.op = "save"
                 /\ savedSearches'[j].query = searchQuery
                 /\ savedSearches'[j].filters = filters]_vars

\* a load, made while a value the snapshot does not select was selected, of a
\* search saved with a filter
C14_Witness ==
    /\ lastOp.op = "load"
    /\ lastOp.dropped
    /\ filters = savedSearches[lastOp.i].filters
    /\ searchQuery = savedSearches[lastOp.i].query
    /\ activeFilterCount(filters) > 0

-----------------------------------------------------------------------------
(* standalone page, rules tab: delete, silence, clone, create.             *)

\* longest rules collection the page holds; a handler that would make it
\* longer is not run
MaxSessionRules == 2

currentUser == <<"c","u","r","r","e","n","t","-","u","s","e","r">>
aiWizardTag == <<"a","i","-","w","i","z","a","r","d">>
CopySuffix  == <<" ","(","C","o","p","y",")">>
dsDefault   == <<"d","s","-","2">>

\* new Date(t).toISOString(), t milliseconds after the page was mounted
ISOString(t) == "2026-01-01T00:00:00.00" \o ToString(t) \o "Z"

\* UnifiedRule with the fields the handlers of the rules tab read or write;
\* a rule the backend returned was made before the page was mounted and has
\* a history, a routing and a suppression rule
ServedRule(r) ==
    [id |-> r.id, datasourceId |-> ds1, datasourceType |-> r.datasourceType,
     name |-> r.name, enabled |-> r.enabled, severity |-> r.severity,
     query |-> r.query, labels |-> r.labels, monitorType |-> r.monitorType,
     status |-> r.status, healthStatus |-> r.healthStatus,
     createdBy |-> r.createdBy, createdAt |-> "2025-12-31T00:00:00.000Z",
     lastModified |-> "2025-12-31T12:00:00.000Z",
     notificationDestinations |-> <<"slack">>, alertHistory |-> <<"fired">>,
     conditionPreviewData |-> <<>>, notificationRouting |-> <<"route">>,
     suppressionRules |-> <<"window">>]

\* the collections GET /api/rules may return to the page of this section
ServedCollections == {[i \in 1..Len(c) |-> ServedRule(c[i])] :
                         c \in InjSeqs(RulePool, MaxSearchRules)}

\* what the Create Monitor form hands to onSave: a label row with an empty
\* value is among the rows
FormStates ==
    {[name |-> <<"n">>, enabled |-> e, severity |-> high, query |-> <<"u","p">>,
      labels |-> <<[key |-> service, value |-> <<"b">>],
                   [key |-> env, value |-> <<>>]>>] : e \in BOOLEAN}

\* the templates the AI wizard offers
AlertTemplates ==
    {[name |-> <<"c","p","u">>, severity |-> critical, query |-> <<"u","p">>,
      labels |-> Labels1(service, <<"a">>)],
     [name |-> <<"m","e","m">>, severity |-> high, query |-> <<"u","p">>,
      labels |-> NoLabels]}

\* for (const l of formState.labels) if (l.key && l.value) labelsObj[l.key] = l.value
RECURSIVE labelsObj(_)
labelsObj(rows) ==
    IF rows = <<>> THEN NoLabels
    ELSE LET before == labelsObj(SubSeq(rows, 1, Len(rows) - 1))
             l == rows[Len(rows)]
         IN  IF Truthy(l.key) /\ Truthy(l.value)
             THEN [k \in DOMAIN before \cup {l.key} |->
                       IF k = l.key THEN l.value ELSE before[k]]
             ELSE before

\* visibleRules = rules.filter(r => !deletedRuleIds.has(r.id))
visibleRules(rs, deleted) == SelectSeq(rs, LAMBDA r : r.id \notin deleted)

\* the counter in the name of the Rules tab: `Rules (${visibleRules.length})`
RulesTabCount(rs, deleted) == Len(visibleRules(rs, deleted))

handleDeleteRules_Replacing(prev, ids) == {ids[i] : i \in 1..Len(ids)}

\* handleDeleteRules: next = new Set(prev); ids.forEach(id => next.add(id))
handleDeleteRules(prev, ids) == prev \cup {ids[i] : i \in 1..Len(ids)}

handleSilenceRule_Muting(prev, id) ==
    [i \in 1..Len(prev) |->
        IF prev[i].id = id THEN [prev[i] EXCEPT !.status = muted] ELSE prev[i]]

\* handleSilenceRule: prev.map(r => r.id === id ? { ...r, status: newStatus } : r)
handleSilenceRule(prev, id) ==
    [i \in 1..Len(prev) |->
        IF prev[i].id = id
        THEN [prev[i] EXCEPT !.status = IF @ = muted THEN active ELSE muted]
        ELSE prev[i]]

\* handleCloneRule: [{ ...monitor, id, name, createdAt, lastModified, createdBy }, ...prev]
handleCloneRule(prev, monitor, t) ==
    <<[monitor EXCEPT !.id = TemplateId("clone", t),
                      !.name = monitor.name \o CopySuffix,
                      !.createdAt = ISOString(t),
                      !.lastModified = ISOString(t),
                      !.createdBy = currentUser]>> \o prev

handleCreateMonitor_Active(prev, formState, t) ==
    <<[id |-> TemplateId("new", t), datasourceId |-> dsDefault,
       datasourceType |-> prometheus, name |-> formState.name,
       enabled |-> formState.enabled, severity |-> formState.severity,
       query |-> formState.query, labels |-> labelsObj(formState.labels),
       monitorType |-> metric, status |-> active, healthStatus |-> healthy,
       createdBy |-> currentUser, createdAt |-> ISOString(t),
       lastModified |-> ISOString(t), notificationDestinations |-> <<>>,
       alertHistory |-> <<>>, conditionPreviewData |-> <<>>,
       notificationRouting |-> <<>>, suppressionRules |-> <<>>]>> \o prev

\* handleCreateMonitor: setRules(prev => [newRule, ...prev])
handleCreateMonitor(prev, formState, t) ==
    <<[id |-> TemplateId("new", t), datasourceId |-> dsDefault,
       datasourceType |-> prometheus, name |-> formState.name,
       enabled |-> formState.enabled, severity |-> formState.severity,
       query |-> formState.query, labels |-> labelsObj(formState.labels),
       monitorType |-> metric,
       status |-> IF formState.enabled THEN active ELSE disabledTxt,
       healthStatus |-> healthy,
       createdBy |-> currentUser, createdAt |-> ISOString(t),
       lastModified |-> ISOString(t), notificationDestinations |-> <<>>,
       alertHistory |-> <<>>, conditionPreviewData |-> <<>>,
       notificationRouting |-> <<>>, suppressionRules |-> <<>>]>> \o prev

\* handleAiCreateMonitors: setRules(prev => [...templates.map((t, i) => ...), ...prev])
handleAiCreateMonitors(prev, templates, t) ==
    [i \in 1..Len(templates) |->
        [id |-> TemplateId(TemplateId("ai", t), i - 1), datasourceId |-> dsDefault,
         datasourceType |-> prometheus, name |-> templates[i].name,
         enabled |-> TRUE, severity |-> templates[i].severity,
         query |-> templates[i].query, labels |-> templates[i].labels,
         monitorType |-> metric, status |-> active, healthStatus |-> healthy,
         createdBy |-> aiWizardTag, createdAt |-> ISOString(t),
         lastModified |-> ISOString(t), notificationDestinations |-> <<>>,
         alertHistory |-> <<>>, conditionPreviewData |-> <<>>,
         notificationRouting |-> <<>>, suppressionRules |-> <<>>]] \o prev

\* the variables of the rules tab that its search and filters own
searchVars == <<searchQuery, filters, savedSearches>>

\* onDelete={handleDeleteRules}, with ids of rules the page holds
DeleteRules ==
    /\ page = "standalone"
    /\ \E ids \in InjSeqs({rules[i].id : i \in 1..Len(rules)}, MaxSessionRules) :
           /\ deletedRuleIds' = handleDeleteRules(deletedRuleIds, ids)
           /\ lastOp' = [op |-> "deleteRules", ids |-> ids,
                         repeated |-> ids # <<>> /\ \A i \in 1..Len(ids) :
                                                      ids[i] \in deletedRuleIds]
    /\ UNCHANGED <<alertTabVars, popoverVars, fetchVars, dialogVars, searchVars,
                   rules, now>>

\* onSilence={handleSilenceRule}, on a rule the table shows
SilenceRule ==
    /\ page = "standalone"
    /\ \E i \in 1..Len(visibleRules(rules, deletedRuleIds)) :
           LET id == visibleRules(rules, deletedRuleIds)[i].id
           IN  /\ rules' = handleSilenceRule(rules, id)
               /\ lastOp' = [op |-> "silence", id |-> id]
    /\ UNCHANGED <<alertTabVars, popoverVars, fetchVars, dialogVars, searchVars,
                   deletedRuleIds, now>>

\* onClone={handleCloneRule}, on a rule the table shows
CloneRule ==
    /\ page = "standalone"
    /\ Len(rules) < MaxSessionRules
    /\ \E i \in 1..Len(visibleRules(rules, deletedRuleIds)) :
           LET monitor == visibleRules(rules, deletedRuleIds)[i]
           IN  /\ rules' = handleCloneRule(rules, monitor, now)
               /\ lastOp' = [op |-> "clone", monitor |-> monitor]
    /\ UNCHANGED <<alertTabVars, popoverVars, fetchVars, dialogVars, searchVars,
                   deletedRuleIds, now>>

\* the Create Monitor button: setShowCreateMonitor(true)
OpenCreateMonitor ==
    /\ page = "standalone"
    /\ showCreateMonitor' = TRUE
    /\ lastOp' = [op |-> "openCreate"]
    /\ UNCHANGED <<alertTabVars, popoverVars, fetchVars, searchVars, rules,
                   deletedRuleIds, showAiWizard, now>>

\* onCancel of the Create Monitor flyout
CancelCreateMonitor ==
    /\ showCreateMonitor
    /\ showCreateMonitor' = FALSE
    /\ lastOp' = [op |-> "cancelCreate"]
    /\ UNCHANGED <<alertTabVars, popoverVars, fetchVars, searchVars, rules,
                   deletedRuleIds, showAiWizard, now>>

\* onSave={handleCreateMonitor} of the Create Monitor flyout
CreateMonitor ==
    /\ showCreateMonitor
    /\ Len(rules) < MaxSessionRules
    /\ \E formState \in FormStates :
           /\ rules' = handleCreateMonitor(rules, formState, now)
           /\ lastOp' = [op |-> "create", formState |-> formState]
    /\ showCreateMonitor' = FALSE
    /\ UNCHANGED <<alertTabVars, popoverVars, fetchVars, searchVars,
                   deletedRuleIds, showAiWizard, now>>

\* the Generate monitors button: setShowAiWizard(true)
OpenAiWizard ==
    /\ page = "standalone"
    /\ showAiWizard' = TRUE
    /\ lastOp' = [op |-> "openAi"]
    /\ UNCHANGED <<alertTabVars, popoverVars, fetchVars, searchVars, rules,
                   deletedRuleIds, showCreateMonitor, now>>

\* onClose of the AI wizard
CloseAiWizard ==
    /\ showAiWizard
    /\ showAiWizard' = FALSE
    /\ lastOp' = [op |-> "closeAi"]
    /\ UNCHANGED <<alertTabVars, popoverVars, fetchVars, searchVars, rules,
                   deletedRuleIds, showCreateMonitor, now>>

\* onCreateMonitors={handleAiCreateMonitors} of the AI wizard
AiCreateMonitors ==
    /\ showAiWizard
    /\ \E templates \in InjSeqs(AlertTemplates, MaxSessionRules) :
           /\ Len(rules) + Len(templates) <= MaxSessionRules
           /\ rules' = handleAiCreateMonitors(rules, templates, now)
           /\ lastOp' = [op |-> "aiCreate", templates |-> templates]
    /\ showAiWizard' = FALSE
    /\ UNCHANGED <<alertTabVars, popoverVars, fetchVars, searchVars,
                   deletedRuleIds, showCreateMonitor, now>>

\* The rules tab of a page whose fetch returned a rules collection.
RulesInit ==
    /\ page = "standalone"
    /\ StandaloneFresh
    /\ PluginFresh
    /\ SessionFresh
    /\ rules \in ServedCollections

RulesNext ==
    \/ DeleteRules
    \/ SilenceRule
    \/ CloneRule
    \/ OpenCreateMonitor
    \/ CancelCreateMonitor
    \/ CreateMonitor
    \/ OpenAiWizard
    \/ CloseAiWizard
    \/ AiCreateMonitors
    \/ Tick

RulesSpec == RulesInit /\ [][RulesNext]_vars

\* everything but the rules collection and the tombstone set
RulesTabFrame ==
    UNCHANGED <<alertTabVars, popoverVars, fetchVars, dialogVars, searchVars, now>>

\* a list without the records whose id is one of ids, the others in order
RECURSIVE WithoutIds(_, _)
WithoutIds(rs, ids) ==
    IF rs = <<>> THEN <<>>
    ELSE IF Head(rs).id \in ids THEN WithoutIds(Tail(rs), ids)
         ELSE <<Head(rs)>> \o WithoutIds(Tail(rs), ids)

\* C16: after Delete(ids) the tombstone set is the old one with the ids, the
\* visible list is the rules collection without the rules whose id is
\* tombstoned, in order, the collection itself is what it was, and the
\* counter of the Rules tab is the length of the visible list; a delete of
\* ids that are all tombstoned already changes nothing.
C16_DeleteTombstones ==
    [][lastOp'.op = "deleteRules" =>
        LET ids == {lastOp'.ids[i] : i \in 1..Len(lastOp'.ids)}
        IN  /\ rules' = rules
            /\ deletedRuleIds' = deletedRuleIds \cup ids
            /\ visibleRules(rules', deletedRuleIds')
                   = WithoutIds(rules, deletedRuleIds \cup ids)
            /\ RulesTabCount(rules', deletedRuleIds')
                   = Len(WithoutIds(rules, deletedRuleIds \cup ids))
            /\ RulesTabFrame
            /\ ids \subseteq deletedRuleIds =>
                   /\ deletedRuleIds' = deletedRuleIds
                   /\ visibleRules(rules', deletedRuleIds')
                          = visibleRules(rules, deletedRuleIds)]_vars

\* a delete that hid one of two rules
C16_Witness ==
    /\ lastOp.op = "deleteRules"
    /\ ~lastOp.repeated
    /\ Len(rules) = 2
    /\ Len(visibleRules(rules, deletedRuleIds)) = 1
    /\ RulesTabCount(rules, deletedRuleIds) = 1
    /\ Cardinality(deletedRuleIds) = 1

\* a delete of an id that was tombstoned already, one rule being visible
C16_WitnessRepeated ==
    /\ lastOp.op = "deleteRules"
    /\ lastOp.repeated
    /\ Len(visibleRules(rules, deletedRuleIds)) = 1

\* C17: Silence/unsilence(id) changes nothing but the status of the rules
\* with that id: muted becomes active and active becomes muted, so that a
\* second application gives such a rule its first status back; the other
\* fields of the rule, the other rules, the order and the tombstone set stay.
C17_SilenceTogglesStatus ==
    [][lastOp'.op = "silence" =>
        /\ Len(rules') = Len(rules)
        /\ \A i \in 1..Len(rules) :
               IF rules[i].id = lastOp'.id
               THEN /\ [rules'[i] EXCEPT !.status = rules[i].status] = rules[i]
                    /\ rules[i].status = muted => rules'[i].status = active
                    /\ rules[i].status = active => rules'[i].status = muted
                    /\ rules[i].status \in {muted, active} =>
                           handleSilenceRule(rules', lastOp'.id)[i] = rules[i]
               ELSE rules'[i] = rules[i]
        /\ deletedRuleIds' = deletedRuleIds
        /\ RulesTabFrame]_vars

\* an unsilence of a muted rule, another rule being in the collection
C17_Witness ==
    /\ lastOp.op = "silence"
    /\ Len(rules) = 2
    /\ \E i, j \in 1..Len(rules) :
           /\ rules[i].id = lastOp.id
           /\ rules[i].status = active
           /\ rules[i].createdAt = "2025-12-31T00:00:00.000Z"
           /\ rules[j].id # lastOp.id

\* a silence of an active rule
C17_WitnessSilenced ==
    /\ lastOp.op = "silence"
    /\ \E i \in 1..Len(rules) : rules[i].id = lastOp.id /\ rules[i].status = muted

\* the fields Clone regenerates
CloneRegenerates == {"id", "name", "createdBy", "createdAt", "lastModified"}

\* C18: Clone(rule) puts one new record at the head of the collection, the
\* rest being the old collection; the record has an id other than the
\* original's, the original's name followed by ' (Copy)', a createdBy other
\* than the original's, createdAt and lastModified of now, and every other
\* field equal to the original's.
C18_CloneIsFreshCopy ==
    [][lastOp'.op = "clone" =>
        LET original == lastOp'.monitor
            clone == rules'[1]
        IN  /\ Len(rules') = Len(rules) + 1
            /\ Tail(rules') = rules
            /\ clone.id # original.id
            /\ clone.name = original.name \o CopySuffix
            /\ clone.createdBy # original.createdBy
            /\ clone.createdAt = ISOString(now)
            /\ clone.lastModified = ISOString(now)
            /\ \A field \in DOMAIN original \ CloneRegenerates :
                   clone[field] = original[field]]_vars

\* What Clone does guarantee: the same with the id being `clone-<now>` and
\* createdBy being 'current-user', whatever the original's are.
C18_CloneCopiesAtHead ==
    [][lastOp'.op = "clone" =>
        LET original == lastOp'.monitor
            clone == rules'[1]
        IN  /\ Len(rules') = Len(rules) + 1
            /\ Tail(rules') = rules
            /\ clone.id = TemplateId("clone", now)
            /\ clone.name = original.name \o CopySuffix
            /\ clone.createdBy = currentUser
            /\ clone.createdAt = ISOString(now)
            /\ clone.lastModified = ISOString(now)
            /\ \A field \in DOMAIN original \ CloneRegenerates :
                   clone[field] = original[field]
            /\ deletedRuleIds' = deletedRuleIds
            /\ RulesTabFrame]_vars

\* a clone of a rule that 'current-user' made
C18_CloneOfOwnRule ==
    /\ lastOp.op = "clone"
    /\ lastOp.monitor.createdBy = currentUser
    /\ rules[1].createdBy = currentUser

\* the defaults of a rule that Create or the AI wizard made
HasDefaults(r) ==
    /\ r.healthStatus = healthy
    /\ r.alertHistory = <<>>
    /\ r.notificationRouting = <<>>
    /\ r.suppressionRules = <<>>

\* C19: Create puts one rule, and the AI wizard one rule per template in the
\* order of the templates, ahead of the old collection, which stays as it
\* was; each new rule is healthy and has no history, routing or suppression
\* rule; the status of a created rule is 'active' if the form's enabled flag
\* is set and 'disabled' if not; a rule of the AI wizard is enabled and
\* 'active'.
C19_CreatePrepends ==
    [][/\ lastOp'.op = "create" =>
              /\ Len(rules') = Len(rules) + 1
              /\ Tail(rules') = rules
              /\ HasDefaults(rules'[1])
              /\ rules'[1].name = lastOp'.formState.name
              /\ rules'[1].status =
                     IF lastOp'.formState.enabled THEN active ELSE disabledTxt
              /\ deletedRuleIds' = deletedRuleIds
       /\ lastOp'.op = "aiCreate" =>
              LET n == Len(lastOp'.templates)
              IN  /\ Len(rules') = Len(rules) + n
                  /\ SubSeq(rules', n + 1, Len(rules')) = rules
                  /\ \A i \in 1..n :
                         /\ HasDefaults(rules'[i])
                         /\ rules'[i].name = lastOp'.templates[i].name
                         /\ rules'[i].query = lastOp'.templates[i].query
                         /\ rules'[i].enabled
                         /\ rules'[i].status = active
                  /\ deletedRuleIds' = deletedRuleIds]_vars

\* a Create with the enabled flag off, ahead of a rule the page held
C19_Witness ==
    /\ lastOp.op = "create"
    /\ ~lastOp.formState.enabled
    /\ Len(rules) = 2
    /\ rules[1].status = disabledTxt
    /\ rules[2].alertHistory # <<>>

\* an AI wizard run with two templates
C19_WitnessWizard ==
    /\ lastOp.op = "aiCreate"
    /\ Len(lastOp.templates) = 2
    /\ Len(rules) = 2
    /\ rules[1].name = lastOp.templates[1].name
    /\ rules[1].name # rules[2].name

-----------------------------------------------------------------------------
(* Both pages: fetchData, run by the mount effect.                         *)

\* longest collection a list request of this section returns
MaxFetched == 1

\* a Datasource
Datasource(id, name, type, isEnabled) ==
    [id |-> id, name |-> name, type |-> type, enabled |-> isEnabled]

DatasourcePool ==
    {Datasource(ds1, <<"O","S">>, opensearch, TRUE),
     Datasource(ds2, <<"P","r","o","m">>, prometheus, FALSE)}

\* what each list request may be fulfilled with
ListResults ==
    [listAlerts |-> InjSeqs(AlertPool, MaxFetched),
     listRules |-> {[i \in 1..Len(c) |-> ServedRule(c[i])] :
                      c \in InjSeqs(RulePool, MaxFetched)},
     listDatasources |-> InjSeqs(DatasourcePool, MaxFetched)]

\* the three requests of Promise.all, as fetchData names them
ListRequests == {"listAlerts", "listRules", "listDatasources"}

\* the page is constructed and its mount effect has not run
FetchMounted ==
    [pc |-> "mounted", promise |-> "none", logged |-> FALSE,
     listAlerts |-> [state |-> "unsent"], listRules |-> [state |-> "unsent"],
     listDatasources |-> [state |-> "unsent"]]

\* Promise.all: rejected once one promise is rejected, fulfilled once all
\* are fulfilled, pending until then
PromiseAll(f) ==
    IF \E req \in ListRequests : f[req].state = "rejected" THEN "rejected"
    ELSE IF \A req \in ListRequests : f[req].state = "fulfilled" THEN "fulfilled"
    ELSE "pending"

\* every request has been answered or has failed
AllSettled == \A req \in ListRequests : fetch[req].state \in {"fulfilled", "rejected"}

\* what fetchData leaves alone
FetchFrame ==
    UNCHANGED <<page, alertFilters, alertSearchQuery, popoverVars, searchVars,
                deletedRuleIds, dialogVars, now, lastOp>>

\* useEffect(() => { fetchData(); }): setLoading(true) and the three requests
\* are sent; fetchData then waits for Promise.all
FetchData ==
    /\ fetch.pc = "mounted"
    /\ loading' = TRUE
    /\ fetch' = [pc |-> "await", promise |-> "pending", logged |-> FALSE,
                 listAlerts |-> [state |-> "pending"],
                 listRules |-> [state |-> "pending"],
                 listDatasources |-> [state |-> "pending"]]
    /\ UNCHANGED <<alerts, rules, datasources>>
    /\ FetchFrame

\* a list request is answered with one of the results the backend may give
ListFulfilledWith(results) ==
    /\ \E req \in ListRequests :
           /\ fetch[req].state = "pending"
           /\ \E result \in results[req] :
                  fetch' = [fetch EXCEPT ![req] = [state |-> "fulfilled", value |-> result]]
    /\ UNCHANGED <<alerts, rules, datasources, loading>>
    /\ FetchFrame

\* a list request is answered
ListFulfilled == ListFulfilledWith(ListResults)

\* a list request fails
ListRejected ==
    /\ \E req \in ListRequests :
           /\ fetch[req].state = "pending"
           /\ fetch' = [fetch EXCEPT ![req] = [state |-> "rejected"]]
    /\ UNCHANGED <<alerts, rules, datasources, loading>>
    /\ FetchFrame

\* the try block after the await, then finally
FetchDataTry ==
    /\ fetch.pc = "await"
    /\ PromiseAll(fetch) = "fulfilled"
    /\ alerts' = fetch.listAlerts.value
    /\ rules' = fetch.listRules.value
    /\ datasources' = fetch.listDatasources.value
    /\ loading' = FALSE
    /\ fetch' = FetchDone
    /\ FetchFrame

FetchDataCatch_Partial ==
    /\ fetch.pc = "await"
    /\ PromiseAll(fetch) = "rejected"
    /\ alerts' = IF fetch.listAlerts.state = "fulfilled"
                 THEN fetch.listAlerts.value ELSE alerts
    /\ loading' = FALSE
    /\ fetch' = [fetch EXCEPT !.pc = "done", !.promise = "fulfilled", !.logged = TRUE]
    /\ UNCHANGED <<rules, datasources>>
    /\ FetchFrame

\* the catch block, which logs the error, then finally
FetchDataCatch ==
    /\ fetch.pc = "await"
    /\ PromiseAll(fetch) = "rejected"
    /\ loading' = FALSE
    /\ fetch' = [fetch EXCEPT !.pc = "done", !.promise = "fulfilled", !.logged = TRUE]
    /\ UNCHANGED <<alerts, rules, datasources>>
    /\ FetchFrame

\* Either page as constructed: every collection empty, loading true.
FetchInit ==
    /\ page \in {"standalone", "plugin"}
    /\ StandaloneFresh
    /\ PluginFresh
    /\ RulesTabFresh
    /\ rules = <<>>
    /\ datasources = <<>>
    /\ loading = TRUE
    /\ fetch = FetchMounted

FetchNext ==
    \/ FetchData
    \/ ListFulfilled
    \/ ListRejected
    \/ FetchDataTry
    \/ FetchDataCatch

\* The mount effect runs after the first render, and the continuation of
\* fetchData is a microtask that runs once Promise.all has settled; whether
\* and when a request settles is up to the network.
FetchSpec ==
    /\ FetchInit
    /\ [][FetchNext]_vars
    /\ WF_vars(FetchData)
    /\ WF_vars(FetchDataTry)
    /\ WF_vars(FetchDataCatch)

C20_WitnessFulfilled ==
    /\ fetch = FetchDone
    /\ alerts # <<>> /\ rules # <<>> /\ datasources # <<>>
    /\ loading = FALSE

-----------------------------------------------------------------------------
(* Both pages: what is rendered in place of an empty table.                *)

alertsEmptyPrompt_Swapped(isLoading, as, filtered) ==
    IF ~isLoading /\ Len(filtered) = 0
    THEN IF Len(as) = 0 THEN "No Matching Alerts" ELSE "No Active Alerts"
    ELSE "table"

\* standalone, alerts tab: !loading && filteredAlerts.length === 0 ? the
\* prompt, titled by alerts.length === 0 : a table
alertsEmptyPrompt(isLoading, as, filtered) ==
    IF ~isLoading /\ Len(filtered) = 0
    THEN IF Len(as) = 0 THEN "No Active Alerts" ELSE "No Matching Alerts"
    ELSE "table"

\* plugin, rules tab: the two early returns of renderTable, else a table
rulesRenderTable(isLoading, rs, filtered, q, count) ==
    IF ~isLoading /\ Len(rs) = 0 THEN "No Rules"
    ELSE IF ~isLoading /\ Len(filtered) = 0 /\ (Truthy(q) \/ count > 0)
         THEN "No Matching Rules"
         ELSE "table"

\* what the mounted page renders for its filtered list
Rendered ==
    IF page = "standalone"
    THEN alertsEmptyPrompt(loading, alerts, FilteredAlerts)
    ELSE rulesRenderTable(loading, rules, FilteredRules, searchQuery,
             ruleActiveFilterCount(statusFilter, severityFilter, backendFilter))

\* the titles of the two kinds of message
NoRecordsTitles == {"No Active Alerts", "No Rules"}
NoMatchTitles == {"No Matching Alerts", "No Matching Rules"}

\* the collection and the filtered list of the mounted page
Underlying == IF page = "standalone" THEN alerts ELSE rules
Displayed == IF page = "standalone" THEN FilteredAlerts ELSE FilteredRules

\* C21: while loading is false, the page shows the 'no records' message
\* exactly when the collection is empty, the 'no matching records' message
\* exactly when the collection is not empty and the filtered list is, and a
\* table, hence neither message, when the filtered list is not empty.
C21_EmptyMessagesDistinguish ==
    loading = FALSE =>
        /\ Rendered \in NoRecordsTitles <=> Underlying = <<>>
        /\ Rendered \in NoMatchTitles <=> (Underlying # <<>> /\ Displayed = <<>>)
        /\ Displayed # <<>> => Rendered = "table"

\* the plugin page with rules none of which passes the filters
C21_Witness ==
    /\ page = "plugin"
    /\ loading = FALSE
    /\ Len(rules) = 2
    /\ FilteredRules = <<>>
    /\ Rendered = "No Matching Rules"

\* the standalone page with alerts none of which passes, and with no alerts
C21_WitnessAlerts ==
    /\ page = "standalone"
    /\ alerts # <<>>
    /\ FilteredAlerts = <<>>
    /\ Rendered = "No Matching Alerts"

C21_WitnessNoAlerts ==
    /\ page = "standalone"
    /\ alerts = <<>>
    /\ Rendered = "No Active Alerts"

(***************************************************************************)
(* Standalone page: a session from the mount of the page on.  The tabs,    *)
(* the buttons of the rules tab and the monitors table are rendered while  *)
(* loading is true, so the handlers of the rules tab may run before        *)
(* fetchData goes on after its await.  The backend of this section answers *)
(* every request.                                                          *)
(***************************************************************************)

\* what the backend of this section answers: no alert, no datasource, and
\* no rule or the rule r1
SessionResults ==
    [listAlerts |-> {<<>>},
     listRules |-> {c \in ListResults.listRules :
                        \A i \in 1..Len(c) : c[i].id = "r1"},
     listDatasources |-> {<<>>}]

\* a list request of the session is answered
SessionListFulfilled == ListFulfilledWith(SessionResults)

\* The standalone page as constructed: every collection empty, loading true.
SessionInit ==
    /\ FetchInit
    /\ page = "standalone"

SessionNext ==
    \/ FetchData
    \/ SessionListFulfilled
    \/ FetchDataTry
    \/ DeleteRules
    \/ SilenceRule
    \/ CloneRule
    \/ OpenCreateMonitor
    \/ CancelCreateMonitor
    \/ CreateMonitor
    \/ OpenAiWizard
    \/ CloseAiWizard
    \/ AiCreateMonitors
    \/ Tick

SessionSpec == SessionInit /\ [][SessionNext]_vars

\* does a record of the list have this id?
HasId(list, id) == \E i \in 1..Len(list) : list[i].id = id

\* the ids handleCreateMonitor, handleAiCreateMonitors and handleCloneRule
\* give within the clock of the model
IsLocalId(id) ==
    \E t \in 0..MaxClock :
        \/ id \in {TemplateId("new", t), TemplateId("clone", t)}
        \/ \E i \in 0..(MaxSessionRules - 1) : id = TemplateId(TemplateId("ai", t), i)

\* C24: a rule added locally by Create, by the AI wizard or by Clone is in
\* the rules collection in every later state: no step of the session, the
\* completion of the initial fetch included, takes a rule with a locally
\* generated id out of the rules collection.
C24_LocalAdditionsStay ==
    [][\A i \in 1..Len(rules) :
           IsLocalId(rules[i].id) => HasId(rules', rules[i].id)]_vars

\* a monitor was created while the fetch was in flight
C24_CreatedInFlight ==
    /\ fetch.pc = "await"
    /\ lastOp.op = "create"
    /\ HasId(rules, TemplateId("new", 0))

\* C25: the tombstone set only grows, and no rule whose id is in it is in
\* the visible rule list, in every state of the session.
C25_TombstonesOnlyGrow ==
    /\ [][deletedRuleIds \subseteq deletedRuleIds']_vars
    /\ [](\A i \in 1..Len(visibleRules(rules, deletedRuleIds)) :
              visibleRules(rules, deletedRuleIds)[i].id \notin deletedRuleIds)

\* a rule created in flight was deleted, the fetch completed with a
\* collection, and a second rule was deleted after that
C25_Witness ==
    /\ fetch.pc = "done"
    /\ lastOp.op = "deleteRules"
    /\ deletedRuleIds = {TemplateId("new", 0), "r1"}
    /\ HasId(rules, "r1")

\* a tombstoned rule of the collection after a later clone
C25_WitnessLaterClone ==
    /\ lastOp.op = "clone"
    /\ \E i \in 1..Len(rules) : rules[i].id \in deletedRuleIds

(***************************************************************************)
(* Standalone page: the callbacks onDelete, onSilence and onDeleteSearch   *)
(* called with an id, whether a record has it or not.                      *)
(***************************************************************************)

\* ids handed to onDelete and onSilence: the id of a served rule and the id
\* handleCreateMonitor gives at the last tick
RuleIdArguments == {"r1", TemplateId("new", MaxClock)}

\* ids handed to onDeleteSearch: the id saveCurrentSearch gives at the last
\* tick
SearchIdArguments == {TemplateId("ss", MaxClock)}

\* handleDeleteRules([id]), whatever the id
DeleteRulesWithId ==
    /\ page = "standalone"
    /\ \E id \in RuleIdArguments :
           /\ deletedRuleIds' = handleDeleteRules(deletedRuleIds, <<id>>)
           /\ lastOp' = [op |-> "deleteRulesWithId", id |-> id,
                         known |-> HasId(rules, id)]
    /\ UNCHANGED <<alertTabVars, popoverVars, fetchVars, dialogVars, searchVars,
                   rules, now>>

\* handleSilenceRule(id), whatever the id
SilenceRuleWithId ==
    /\ page = "standalone"
    /\ \E id \in RuleIdArguments :
           /\ rules' = handleSilenceRule(rules, id)
           /\ lastOp' = [op |-> "silenceWithId", id |-> id,
                         known |-> HasId(rules, id)]
    /\ UNCHANGED <<alertTabVars, popoverVars, fetchVars, dialogVars, searchVars,
                   deletedRuleIds, now>>

\* deleteSavedSearch(id), whatever the id
DeleteSavedSearchWithId ==
    /\ page = "standalone"
    /\ \E id \in SearchIdArguments :
           /\ savedSearches' = deleteSavedSearch(savedSearches, id)
           /\ lastOp' = [op |-> "deleteSearchWithId", id |-> id,
                         known |-> HasId(savedSearches, id)]
    /\ UNCHANGED <<alertTabVars, popoverVars, fetchVars, dialogVars, rules,
                   searchQuery, filters, deletedRuleIds, now>>

\* The rules tab of a page whose fetch returned a rules collection.
CallbackInit == RulesInit

CallbackNext ==
    \/ DeleteRulesWithId
    \/ SilenceRuleWithId
    \/ DeleteSavedSearchWithId
    \/ OpenCreateMonitor
    \/ CancelCreateMonitor
    \/ CreateMonitor
    \/ SearchChange
    \/ SaveCurrentSearch
    \/ Tick

CallbackSpec == CallbackInit /\ [][CallbackNext]_vars

\* C22: silence, rule delete and saved-search delete called with an id no
\* record has change nothing: the rules collection, the tombstone set, the
\* visible rule list, the saved-search list, the query and the filters are
\* after the call what they were before it.
C22_UnknownIdIsNoOp ==
    [][(/\ lastOp'.op \in {"deleteRulesWithId", "silenceWithId", "deleteSearchWithId"}
        /\ ~lastOp'.known)
       => /\ UNCHANGED <<rules, deletedRuleIds, searchVars>>
          /\ visibleRules(rules', deletedRuleIds') = visibleRules(rules, deletedRuleIds)]_vars

\* the part of C22 that the code keeps: an unknown id given to silence or to
\* the saved-search delete changes nothing
C22_SilenceAndSearchDeleteAreNoOps ==
    [][(/\ lastOp'.op \in {"silenceWithId", "deleteSearchWithId"}
        /\ ~lastOp'.known)
       => UNCHANGED <<rules, deletedRuleIds, searchVars>>]_vars

\* silence and saved-search delete were called with an id no record has,
\* with records of other ids present
C22_WitnessUnknown ==
    /\ lastOp.op \in {"silenceWithId", "deleteSearchWithId"}
    /\ ~lastOp.known
    /\ rules # <<>>
    /\ savedSearches # <<>>

\* a monitor that was given an id deleted before it existed: it is in the
\* rules collection and not in the visible list
C22_CreatedRuleHidden ==
    /\ lastOp.op = "create"
    /\ rules[1].id \in deletedRuleIds
    /\ ~HasId(visibleRules(rules, deletedRuleIds), rules[1].id)

(***************************************************************************)
(* Standalone page: what holds of the rules collection of a session.       *)
(***************************************************************************)

\* C23: no two rules of the rules collection share an id, in every state
\* reached by Create, AI wizard runs and Clone from a fetched collection
\* with unique ids.
C23_RuleIdsUnique ==
    \A i, j \in 1..Len(rules) : rules[i].id = rules[j].id => i = j

\* two monitors created within one clock tick
C23_TwoCreatesInOneTick ==
    /\ lastOp.op = "create"
    /\ Len(rules) = 2
    /\ rules[1].id = TemplateId("new", now)
    /\ rules[2].id = TemplateId("new", now)

\* C26: a rule that is not enabled has status 'disabled', in every state
\* reached by Create, AI wizard runs, Clone, Silence and Delete from a
\* fetched collection of which this holds.
C26_DisabledRulesStayDisabled ==
    \A i \in 1..Len(rules) : ~rules[i].enabled => rules[i].status = disabledTxt

\* the fetched collections satisfy the premise of C26
C26_FetchedSatisfyPremise ==
    \A c \in ServedCollections :
        \A i \in 1..Len(c) : ~c[i].enabled => c[i].status = disabledTxt

\* a disabled rule was silenced
C26_DisabledRuleSilenced ==
    /\ lastOp.op = "silence"
    /\ \E i \in 1..Len(rules) :
           /\ rules[i].id = lastOp.id
           /\ ~rules[i].enabled
           /\ rules[i].status = muted

(***************************************************************************)
(* Standalone page with the alerts panel of its own directory, the module  *)
(* its import of './alerts_filters_panel' names: AlertFilterState without  *)
(* a datasourceId field and a panel without a Data sources section.        *)
(***************************************************************************)

\* emptyAlertFilters() of src/standalone/components/alerts_filters_panel.tsx
standaloneEmptyAlertFilters ==
    [state |-> <<>>, severity |-> <<>>, datasourceType |-> <<>>,
     labels |-> <<>>, groupBy |-> "none"]

\* activeFilterCount of that panel
standaloneActiveFilterCount(f) ==
    Len(f.state) + Len(f.severity) + Len(f.datasourceType) + SumLabelValues(f.labels)

\* the facets rendered by renderFacetGroup, each with its options
standaloneFacetOptions(as) ==
    [state |-> uniqueStates(as), severity |-> uniqueSeverities(as),
     datasourceType |-> uniqueBackends(as)]

\* the fields of alertFilters that filteredAlerts and groupedAlerts read
EvaluatorFields ==
    {"state", "severity", "datasourceType", "datasourceId", "labels", "groupBy"}

\* onFiltersChange={setAlertFilters}, from the panel of the standalone directory
PanelSetAlertFilters(f) ==
    /\ page = "standalone"
    /\ Len(f.state) + Len(f.severity) + Len(f.datasourceType)
           + LabelEntriesSize(f.labels) <= MaxActive
    /\ alertFilters' = f
    /\ UNCHANGED <<page, alerts, alertSearchQuery, rules, searchQuery,
                   statusFilter, severityFilter, backendFilter, viewMode>>
    /\ UNCHANGED sessionVars

\* a checkbox of the State, Severity or Backend facet
PanelUpdateFilter ==
    \E key \in DOMAIN standaloneFacetOptions(alerts) :
        \E i \in 1..Len(standaloneFacetOptions(alerts)[key]) :
            PanelSetAlertFilters([alertFilters EXCEPT
                ![key] = ToggleOption(@, standaloneFacetOptions(alerts)[key][i])])

\* a checkbox of a label facet
PanelUpdateLabelFilter ==
    \E k \in 1..Len(collectLabelKeys(alerts)) :
        LET key == collectLabelKeys(alerts)[k]
            options == collectLabelValues(alerts, key)
        IN  \E i \in 1..Len(options) :
                PanelSetAlertFilters(updateLabelFilter(alertFilters, key,
                    ToggleOption(SelectedLabelValues(alertFilters, key), options[i])))

\* the Group by button group
PanelSetGroupBy ==
    \E i \in 1..Len(groupByOptions) :
        PanelSetAlertFilters([alertFilters EXCEPT !.groupBy = groupByOptions[i]])

\* the Clear button, shown while activeFilterCount > 0
PanelClearAllFilters ==
    /\ standaloneActiveFilterCount(alertFilters) > 0
    /\ PanelSetAlertFilters(standaloneEmptyAlertFilters)

\* The page after its fetch, with useState(emptyAlertFilters()) of that panel.
PanelInit ==
    /\ page = "standalone"
    /\ alerts \in AlertCollections
    /\ rules = <<>>
    /\ alertFilters = standaloneEmptyAlertFilters
    /\ alertSearchQuery = <<>>
    /\ PluginFresh
    /\ SessionFresh

PanelNext ==
    \/ PanelUpdateFilter
    \/ PanelUpdateLabelFilter
    \/ PanelSetGroupBy
    \/ PanelClearAllFilters

PanelSpec == PanelInit /\ [][PanelNext]_vars

\* C27: every alert Filter State the page holds defines every field the
\* alert filter evaluator reads (state, severity, datasourceType,
\* datasourceId, labels, groupBy).
C27_FilterStateDefinesEveryField == EvaluatorFields \subseteq DOMAIN alertFilters

\* a Filter State of that panel after toggles and a Clear
C27_ClearedState ==
    /\ alertFilters = standaloneEmptyAlertFilters
    /\ alerts # <<>>

(***************************************************************************)
(* Standalone page, alerts panel with the Data sources section: what a     *)
(* step of the panel does to the Filter State.                             *)
(***************************************************************************)

\* new is old with one value checked or one value unchecked
OneOptionToggled(old, new) ==
    \E v \in Range(old) \cup Range(new) :
        \/ v \notin Range(old) /\ Range(new) = Range(old) \cup {v}
        \/ v \in Range(old) /\ Range(new) = Range(old) \ {v}

\* the label keys a Filter State has an entry for
LabelKeysOf(f) == {f.labels[i].key : i \in 1..Len(f.labels)}

\* every field of the two Filter States but those of except is the same
SameBut(f, g, except) == \A k \in (DOMAIN f) \ except : g[k] = f[k]

\* the step changed the selection of one standard facet by one value
FacetToggleStep ==
    \E k \in AlertFacets :
        /\ OneOptionToggled(alertFilters[k], alertFilters'[k])
        /\ SameBut(alertFilters, alertFilters', {k})

\* the step changed the selection of one label key by one value
LabelToggleStep ==
    /\ SameBut(alertFilters, alertFilters', {"labels"})
    /\ \E key \in LabelKeysOf(alertFilters') :
           /\ OneOptionToggled(SelectedLabelValues(alertFilters, key),
                               SelectedLabelValues(alertFilters', key))
           /\ \A other \in (LabelKeysOf(alertFilters) \cup LabelKeysOf(alertFilters')) \ {key} :
                  SelectedLabelValues(alertFilters', other)
                      = SelectedLabelValues(alertFilters, other)

\* the step changed groupBy and nothing else
GroupByStep == SameBut(alertFilters, alertFilters', {"groupBy"})

\* no value twice in a selection
NoValueTwice(selected) ==
    \A i, j \in 1..Len(selected) : selected[i] = selected[j] => i = j

\* checking the option and unchecking it again, from a Filter State that
\* does not select it, gives a Filter State that selects the same records
\* and counts the same active filters
RoundTripKeeps(f, back) ==
    /\ filteredAlerts(alerts, alertSearchQuery, back)
           = filteredAlerts(alerts, alertSearchQuery, f)
    /\ alertActiveFilterCount(back) = alertActiveFilterCount(f)

FacetRoundTrips ==
    \A k \in AlertFacets :
        LET options == CASE k = "state" -> uniqueStates(alerts)
                         [] k = "severity" -> uniqueSeverities(alerts)
                         [] k = "datasourceType" -> uniqueBackends(alerts)
                         [] OTHER -> uniqueDatasources(alerts)
        IN  \A i \in 1..Len(options) :
                ~Has(alertFilters[k], options[i]) =>
                    LET checked == [alertFilters EXCEPT ![k] = ToggleOption(@, options[i])]
                        back == [checked EXCEPT ![k] = ToggleOption(@, options[i])]
                    IN  /\ Has(checked[k], options[i])
                        /\ back[k] = alertFilters[k]
                        /\ RoundTripKeeps(alertFilters, back)

LabelRoundTrips ==
    \A k \in 1..Len(collectLabelKeys(alerts)) :
        LET key == collectLabelKeys(alerts)[k]
            options == collectLabelValues(alerts, key)
        IN  \A i \in 1..Len(options) :
                ~Has(SelectedLabelValues(alertFilters, key), options[i]) =>
                    LET checked == updateLabelFilter(alertFilters, key,
                            ToggleOption(SelectedLabelValues(alertFilters, key), options[i]))
                        back == updateLabelFilter(checked, key,
                            ToggleOption(SelectedLabelValues(checked, key), options[i]))
                    IN  /\ Has(SelectedLabelValues(checked, key), options[i])
                        /\ SelectedLabelValues(back, key)
                               = SelectedLabelValues(alertFilters, key)
                        /\ RoundTripKeeps(alertFilters, back)

\* C28: a step of the panel that is not the group-by button and not Clear
\* checks or unchecks exactly one value of exactly one facet or label key
\* and leaves every other facet, every other label key and groupBy as they
\* were; no selection holds a value twice; and checking then unchecking an
\* option gives a Filter State that selects the same records and has the
\* same active-filter count.
C28_ToggleChangesOneSelection ==
    /\ [][(page = "standalone" /\ alertFilters' # alertFilters)
          => \/ FacetToggleStep
             \/ LabelToggleStep
             \/ GroupByStep
             \/ alertFilters' = emptyAlertFilters]_vars
    /\ [](page = "standalone" =>
            /\ \A k \in AlertFacets : NoValueTwice(alertFilters[k])
            /\ \A key \in LabelKeysOf(alertFilters) :
                   NoValueTwice(SelectedLabelValues(alertFilters, key))
            /\ FacetRoundTrips
            /\ LabelRoundTrips)

\* a facet value is checked and a label value was checked and unchecked
\* again, which left its key with an empty selection
C28_Witness ==
    /\ page = "standalone"
    /\ Len(alertFilters.state) = 1
    /\ \E key \in LabelKeysOf(alertFilters) : SelectedLabelValues(alertFilters, key) = <<>>

\* what a step that changes more than one part of the Filter State leaves
MultiFieldStep ==
    /\ alertFilters' # alertFilters
    /\ ~FacetToggleStep
    /\ ~LabelToggleStep
    /\ ~GroupByStep

\* C29: from emptyAlertFilters(), whatever the panel does, groupBy is
\* 'none' or 'datasource', never 'state'; and Clear, the one step that
\* changes several parts of the Filter State at once, leaves
\* emptyAlertFilters(), whose groupBy is 'none'.
C29_GroupByNeverState ==
    /\ [](page = "standalone" => alertFilters.groupBy \in {"none", "datasource"})
    /\ [][(page = "standalone" /\ MultiFieldStep)
          => alertFilters' = emptyAlertFilters /\ alertFilters'.groupBy = "none"]_vars

\* grouped by datasource with a value selected: the Clear button is shown
C29_Witness ==
    /\ page = "standalone"
    /\ alertFilters.groupBy = "datasource"
    /\ alertActiveFilterCount(alertFilters) > 0
    /\ FilteredAlerts # <<>>

\* all selections empty and the grouping off, with alerts to group
C29_WitnessCleared ==
    /\ page = "standalone"
    /\ alertFilters = emptyAlertFilters
    /\ alerts # <<>>

(***************************************************************************)
(* Standalone page: what the monitors panel computes its facets from.      *)
(***************************************************************************)

monitorsPanelRules_Visible == visibleRules(rules, deletedRuleIds)

\* <MonitorsFiltersPanel rules={rules} ... />: the panel is handed the rules
\* collection, the monitors table the visible list
monitorsPanelRules == rules

\* the options and the counts the panel shows for its six standard facets
MonitorsPanelFacets ==
    [options |-> FacetOptions(monitorsPanelRules),
     counts |-> ruleFacetCounts(monitorsPanelRules)]

\* the sum of the counts of one facet
FacetTotal(counts) == SumOf([i \in 1..Len(counts) |-> counts[i].count])

\* The rules tab of a page whose fetch returned a rules collection: rules
\* are created and deleted, the query and the filters edited.
MonitorsPanelNext ==
    \/ DeleteRules
    \/ OpenCreateMonitor
    \/ CreateMonitor
    \/ SearchChange
    \/ UpdateFilter
    \/ ClearMonitorFilters

MonitorsPanelSpec == RulesInit /\ [][MonitorsPanelNext]_vars

\* C30: the facet values and counts of the monitors panel are computed
\* from the whole rules collection: they change only when the collection
\* does, whatever happens to the query, the Filter State and the tombstone
\* set; every rule, tombstoned or not, finds its value among the options of
\* each facet; and the counts of each facet sum to the length of the rules
\* collection.
C30_FacetsFromWholeCollection ==
    /\ [][rules' = rules => MonitorsPanelFacets' = MonitorsPanelFacets]_vars
    /\ [](\A facet \in DOMAIN MonitorsPanelFacets.counts :
              FacetTotal(MonitorsPanelFacets.counts[facet]) = Len(rules))
    /\ [](\A i \in 1..Len(rules) :
              /\ Has(MonitorsPanelFacets.options.status, rules[i].status)
              /\ ShownCount(MonitorsPanelFacets.counts.status, rules[i].status)
                     = Occurrences([j \in 1..Len(rules) |-> rules[j].status],
                                   rules[i].status))

\* one of two rules is tombstoned, with a query typed and a facet value
\* selected
C30_Witness ==
    /\ Len(rules) = 2
    /\ Len(visibleRules(rules, deletedRuleIds)) = 1
    /\ searchQuery # <<>>
    /\ activeFilterCount(filters) > 0
    /\ FacetTotal(MonitorsPanelFacets.counts.status) = 2

====
